---- MODULE Spec2Model ----
(***************************************************************************)
(* ai-reviewer-core: the unified-diff parser (src/parseDiff.js) and the    *)
(* review orchestrator (src/reviewer.js).                                  *)
(*                                                                         *)
(* A JavaScript string is a sequence of one-character strings.  A nullable *)
(* JavaScript value is a sequence of length at most one: null is <<>> and  *)
(* a present value v is <<v>>.                                             *)
(***************************************************************************)
EXTENDS Integers, Sequences, FiniteSets, TLC

VARIABLES
    diffData,       \* the argument of parseDiff / reviewChanges
    options,        \* reviewChanges' options argument
    pc,             \* position of the call: where it is suspended or how it ended
    hunks,          \* the hunk list parseDiff returned
    results,        \* reviewChanges' results object
    hunkIndex,      \* position of the for..of loop over hunks (1-based), 0 before it
    error,          \* message of the Error the call threw / rejected with
    llmLog,         \* history: every LLM request issued, with how it settled
    parseDiffMock,  \* null, or the message of the Error a mocked ./parseDiff throws
    parseLog,       \* history: the number of parseDiff calls, the first and the last
    filterCall,     \* a call of filterComments: its arguments and what it returned
    llmCall,        \* a call of the LLM layer: its arguments, its steps and its end
    other           \* null, or the locals of a second reviewChanges call in flight

vars == <<diffData, options, pc, hunks, results, hunkIndex, error, llmLog,
          parseDiffMock, parseLog, filterCall, llmCall, other>>

-----------------------------------------------------------------------------
(* Bounds of the model *)

\* longest diff text, in lines, given to the parser
MaxLines == 4
\* longest diff text, in lines, given to reviewChanges
MaxReviewLines == 3
\* longest comment list a review payload carries
MaxComments == 2
\* longest diff text, in lines, given to a parser that is called repeatedly
MaxCallLines == 2
\* most calls made of one parser
MaxCalls == 3
\* longest comment list given to filterComments
MaxFilterComments == 2
\* longest message list given to formatRequest
MaxMessages == 2

-----------------------------------------------------------------------------
(* JavaScript values *)

null == <<>>
Some(v) == <<v>>
Get(m) == m[1]

\* String.prototype.startsWith
startsWith(s, p) == Len(s) >= Len(p) /\ SubSeq(s, 1, Len(p)) = p

\* String.prototype.slice(n), n >= 0
slice(s, n) == IF n >= Len(s) THEN <<>> ELSE SubSeq(s, n + 1, Len(s))

\* position of the first occurrence of the character c in s at or after position i,
\* Len(s) + 1 if there is none
RECURSIVE IndexFrom(_, _, _)
IndexFrom(s, c, i) ==
    IF i > Len(s) \/ s[i] = c THEN i ELSE IndexFrom(s, c, i + 1)

\* String.prototype.split(sep)[0]: the part of s before the first sep (all of s if none)
UpTo(s, sep) == SubSeq(s, 1, IndexFrom(s, sep, 1) - 1)

\* String.prototype.split(sep) for a one-character separator
RECURSIVE split(_, _)
split(s, sep) ==
    LET i == IndexFrom(s, sep, 1)
    IN  IF i > Len(s) THEN <<s>>
        ELSE <<SubSeq(s, 1, i - 1)>> \o split(slice(s, i), sep)

\* Array.prototype.join(sep) over strings
RECURSIVE join(_, _)
join(ss, sep) ==
    IF ss = <<>> THEN <<>>
    ELSE IF Len(ss) = 1 THEN ss[1]
    ELSE ss[1] \o <<sep>> \o join(Tail(ss), sep)

Digit == {"0", "1", "2", "3", "4", "5", "6", "7", "8", "9"}

DigitValue(c) ==
    CASE c = "0" -> 0 [] c = "1" -> 1 [] c = "2" -> 2 [] c = "3" -> 3 [] c = "4" -> 4
      [] c = "5" -> 5 [] c = "6" -> 6 [] c = "7" -> 7 [] c = "8" -> 8 [] c = "9" -> 9

\* parseInt(s, 10) for a string of decimal digits
RECURSIVE parseInt(_)
parseInt(s) ==
    IF s = <<>> THEN 0
    ELSE parseInt(SubSeq(s, 1, Len(s) - 1)) * 10 + DigitValue(s[Len(s)])

-----------------------------------------------------------------------------
(* The literals of parseDiff.js *)

NL == "\n"
DIFF_GIT == <<"d", "i", "f", "f", " ", "-", "-", "g", "i", "t">>
AT_AT == <<"@", "@">>
INDEX == <<"i", "n", "d", "e", "x">>
MINUS3 == <<"-", "-", "-">>
PLUS3 == <<"+", "+", "+">>


-----------------------------------------------------------------------------
(* parseHunkHeader: header.match(/@@ -(\d+)(?:,\d+)? \+(\d+)(?:,\d+)? @@/) *)

\* length of the run of digits of s that starts at position i
RECURSIVE DigitRun(_, _)
DigitRun(s, i) ==
    IF i <= Len(s) /\ s[i] \in Digit THEN 1 + DigitRun(s, i + 1) ELSE 0

\* the literal lit occurs in s at position i
LitAt(s, i, lit) ==
    i + Len(lit) - 1 <= Len(s) /\ SubSeq(s, i, i + Len(lit) - 1) = lit

\* position after the optional group (?:,\d+)? tried at position i
AfterOptLen(s, i) ==
    IF LitAt(s, i, <<",">>) /\ DigitRun(s, i + 1) > 0
    THEN i + 1 + DigitRun(s, i + 1)
    ELSE i

\* the pattern tried at position i of s: null, or the two captured numbers
MatchHeaderAt(s, i) ==
    LET o  == i + 4
        od == DigitRun(s, o)
        p  == AfterOptLen(s, o + od)
        n  == p + 2
        nd == DigitRun(s, n)
        q  == AfterOptLen(s, n + nd)
    IN  IF /\ LitAt(s, i, <<"@", "@", " ", "-">>)
           /\ od > 0
           /\ LitAt(s, p, <<" ", "+">>)
           /\ nd > 0
           /\ LitAt(s, q, <<" ", "@", "@">>)
        THEN Some([oldStart |-> parseInt(SubSeq(s, o, o + od - 1)),
                   newStart |-> parseInt(SubSeq(s, n, n + nd - 1))])
        ELSE null

\* String.prototype.match without the g flag: the leftmost match
RECURSIVE MatchHeaderFrom(_, _)
MatchHeaderFrom(s, i) ==
    IF i > Len(s) THEN null
    ELSE IF MatchHeaderAt(s, i) # null THEN MatchHeaderAt(s, i)
    ELSE MatchHeaderFrom(s, i + 1)

parseHunkHeader(header) == MatchHeaderFrom(header, 1)

-----------------------------------------------------------------------------
(* calculateLineNumber: the line number returned and the counters as the   *)
(* call leaves them (the code increments them in place)                    *)

\* mutant of calculateLineNumber: a context line does not advance the old counter
calculateLineNumber_CtxKeepsOld(line, lineCounters) ==
    IF lineCounters = null
    THEN [lineNumber |-> null, lineCounters |-> null]
    ELSE LET c == Get(lineCounters)
         IN  IF startsWith(line, <<"+">>)
             THEN [lineNumber |-> Some(c.newLine),
                   lineCounters |-> Some([c EXCEPT !.newLine = @ + 1])]
             ELSE IF startsWith(line, <<"-">>)
             THEN [lineNumber |-> Some(c.oldLine),
                   lineCounters |-> Some([c EXCEPT !.oldLine = @ + 1])]
             ELSE [lineNumber |-> Some(c.newLine),
                   lineCounters |-> Some([c EXCEPT !.newLine = @ + 1])]

calculateLineNumber(line, lineCounters) ==
    IF lineCounters = null
    THEN [lineNumber |-> null, lineCounters |-> null]
    ELSE LET c == Get(lineCounters)
         IN  IF startsWith(line, <<"+">>)
             THEN [lineNumber |-> Some(c.newLine),
                   lineCounters |-> Some([c EXCEPT !.newLine = @ + 1])]
             ELSE IF startsWith(line, <<"-">>)
             THEN [lineNumber |-> Some(c.oldLine),
                   lineCounters |-> Some([c EXCEPT !.oldLine = @ + 1])]
             ELSE [lineNumber |-> Some(c.newLine),
                   lineCounters |-> Some([oldLine |-> c.oldLine + 1,
                                          newLine |-> c.newLine + 1])]

\* line[0] === '+' ? 'addition' : line[0] === '-' ? 'deletion' : 'context'
ChangeType(line) ==
    IF line # <<>> /\ line[1] = "+" THEN "addition"
    ELSE IF line # <<>> /\ line[1] = "-" THEN "deletion"
    ELSE "context"

-----------------------------------------------------------------------------
(* parseDiff *)

\* the locals of parseDiff before the loop
\* mutant of ParseStart: the hunks array outlives the call
ParseStart_KeepsHunks ==
    [hunks |-> hunks, currentHunk |-> <<>>, currentFile |-> <<>>,
     currentHunkHeader |-> null, lineCounters |-> null]

ParseStart ==
    [hunks |-> <<>>, currentHunk |-> <<>>, currentFile |-> <<>>,
     currentHunkHeader |-> null, lineCounters |-> null]

\* mutant of PushHunk: the header pushed is the one the line counters have reached
PushHunk_AdvancedHeader(st) ==
    IF Len(st.currentHunk) > 0
    THEN Append(st.hunks,
                [changes |-> st.currentHunk,
                 filename |-> st.currentFile,
                 hunkHeader |->
                    IF st.lineCounters = null THEN null
                    ELSE Some([oldStart |-> Get(st.lineCounters).oldLine,
                               newStart |-> Get(st.lineCounters).newLine])])
    ELSE st.hunks

\* mutant of PushHunk: the currentHunk.length > 0 test is missing
PushHunk_Always(st) ==
    Append(st.hunks, [changes |-> st.currentHunk,
                      filename |-> st.currentFile,
                      hunkHeader |-> st.currentHunkHeader])

\* hunks.push({changes, filename, hunkHeader}) when currentHunk is not empty
PushHunk(st) ==
    IF Len(st.currentHunk) > 0
    THEN Append(st.hunks, [changes |-> st.currentHunk,
                           filename |-> st.currentFile,
                           hunkHeader |-> st.currentHunkHeader])
    ELSE st.hunks

\* mutant of FileOf: the 'a/' prefix is kept
FileOf_KeepsPrefix(line) == UpTo(slice(line, 11), " ")

\* line.slice(11).split(' ')[0].slice(2)
FileOf(line) == slice(UpTo(slice(line, 11), " "), 2)

\* mutant of FileMarker: the hunk in progress is dropped, not pushed
FileMarker_NoFlush(st, line) ==
    [hunks |-> st.hunks, currentHunk |-> <<>>, currentFile |-> FileOf(line),
     currentHunkHeader |-> null, lineCounters |-> null]

\* the 'diff --git' branch
FileMarker(st, line) ==
    [hunks |-> PushHunk(st), currentHunk |-> <<>>, currentFile |-> FileOf(line),
     currentHunkHeader |-> null, lineCounters |-> null]

\* the counters a header starts
CountersOf(header) ==
    IF header # null
    THEN Some([oldLine |-> Get(header).oldStart, newLine |-> Get(header).newStart])
    ELSE null

\* mutant of HunkMarker: counters already running are kept (cumulative across hunks)
HunkMarker_Cumulative(st, line) ==
    LET header == parseHunkHeader(line)
    IN  [hunks |-> PushHunk(st), currentHunk |-> <<>>, currentFile |-> st.currentFile,
         currentHunkHeader |-> header,
         lineCounters |-> IF st.lineCounters # null /\ header # null
                          THEN st.lineCounters ELSE CountersOf(header)]

\* mutant of HunkMarker: a header that does not parse leaves the old counters in place
HunkMarker_KeepsCounters(st, line) ==
    LET header == parseHunkHeader(line)
    IN  [hunks |-> PushHunk(st), currentHunk |-> <<>>, currentFile |-> st.currentFile,
         currentHunkHeader |-> header,
         lineCounters |-> IF header # null THEN CountersOf(header) ELSE st.lineCounters]

\* the '@@' branch
HunkMarker(st, line) ==
    LET header == parseHunkHeader(line)
    IN  [hunks |-> PushHunk(st), currentHunk |-> <<>>, currentFile |-> st.currentFile,
         currentHunkHeader |-> header, lineCounters |-> CountersOf(header)]

\* mutant of IsMetadata: the '+++' test is missing
IsMetadata_NoPlus(line) == startsWith(line, INDEX) \/ startsWith(line, MINUS3)

\* the 'index' / '---' / '+++' test
IsMetadata(line) ==
    startsWith(line, INDEX) \/ startsWith(line, MINUS3) \/ startsWith(line, PLUS3)

\* mutant of ChangeLine: the counters are the header object itself, so counting
\* writes back into hunkHeader
ChangeLine_WritesBack(st, line) ==
    LET lineInfo == calculateLineNumber(line, st.lineCounters)
    IN  [st EXCEPT !.currentHunk = Append(@, [content |-> line,
                                              type |-> ChangeType(line),
                                              lineNumber |-> lineInfo.lineNumber]),
                   !.lineCounters = lineInfo.lineCounters,
                   !.currentHunkHeader =
                        IF lineInfo.lineCounters = null THEN null
                        ELSE Some([oldStart |-> Get(lineInfo.lineCounters).oldLine,
                                   newStart |-> Get(lineInfo.lineCounters).newLine])]

\* the tail of the loop body: the line becomes a change of the current hunk
ChangeLine(st, line) ==
    LET lineInfo == calculateLineNumber(line, st.lineCounters)
    IN  [st EXCEPT !.currentHunk = Append(@, [content |-> line,
                                              type |-> ChangeType(line),
                                              lineNumber |-> lineInfo.lineNumber]),
                   !.lineCounters = lineInfo.lineCounters]

\* one iteration of the loop over lines
ParseLine(st, line) ==
    IF startsWith(line, DIFF_GIT) THEN FileMarker(st, line)
    ELSE IF startsWith(line, AT_AT) THEN HunkMarker(st, line)
    ELSE IF IsMetadata(line) THEN st
    ELSE ChangeLine(st, line)

RECURSIVE ParseLines(_, _)
ParseLines(st, lines) ==
    IF lines = <<>> THEN st ELSE ParseLines(ParseLine(st, Head(lines)), Tail(lines))

\* what a call returns or throws
Return(v) == [threw |-> FALSE, value |-> v]
Throw(message) == [threw |-> TRUE, message |-> message]

\* mutant of IsNonEmptyString: the !diff test is missing
IsNonEmptyString_AllowsEmpty(v) == v.type = "string"

\* !diff || typeof diff !== 'string'
IsNonEmptyString(v) == v.type = "string" /\ v.value # <<>>

\* parseDiff(diff): the hunk list it returns, or the Error it throws
parseDiff(diff) ==
    IF ~IsNonEmptyString(diff)
    THEN Throw("Invalid diff input: expected non-empty string")
    ELSE Return(PushHunk(ParseLines(ParseStart, split(diff.value, NL))))


-----------------------------------------------------------------------------
(* The diff texts given to the parser *)

\* 'diff --git a/f b/f'
DiffF == DIFF_GIT \o <<" ", "a", "/", "f", " ", "b", "/", "f">>
\* 'diff --git a/d/g b/d/g'
DiffG == DIFF_GIT \o <<" ", "a", "/", "d", "/", "g", " ", "b", "/", "d", "/", "g">>
\* 'diff --git a/m n b/m n', a path with a space in it
DiffSpace == DIFF_GIT \o <<" ", "a", "/", "m", " ", "n", " ", "b", "/", "m", " ", "n">>
\* 'index 1..2'
IndexLine == INDEX \o <<" ", "1", ".", ".", "2">>
\* '--- a/f'
OldFileLine == MINUS3 \o <<" ", "a", "/", "f">>
\* '+++ b/f'
NewFileLine == PLUS3 \o <<" ", "b", "/", "f">>
\* '@@ -5,6 +5,8 @@'
HeaderA == <<"@", "@", " ", "-", "5", ",", "6", " ", "+", "5", ",", "8", " ", "@", "@">>
\* '@@ -12 +100 @@ f'
HeaderB == <<"@", "@", " ", "-", "1", "2", " ", "+", "1", "0", "0", " ", "@", "@", " ", "f">>
\* '@@ -a +b @@', which the header pattern does not match
HeaderBad == <<"@", "@", " ", "-", "a", " ", "+", "b", " ", "@", "@">>
AddLine == <<"+", "x">>
DelLine == <<"-", "y">>
CtxLine == <<" ", "z">>
EmptyLine == <<>>
BinaryLine == <<"B", "i", "n", "a", "r", "y", " ", "f", "i", "l", "e", "s", " ",
                "d", "i", "f", "f", "e", "r">>

\* the line families the texts are made of
CounterLines == {HeaderA, HeaderB, AddLine, DelLine, CtxLine}
MetadataLines == {DiffG, IndexLine, OldFileLine, NewFileLine, AddLine}
HeaderlessLines == {HeaderBad, HeaderA, BinaryLine, EmptyLine, CtxLine}
HunkBodyLines == {HeaderA, OldFileLine, NewFileLine, AddLine, DelLine}

FileLines == {DiffG, HeaderA, AddLine}
PathLines == {DiffG, DiffSpace, AddLine}

LineFamilies ==
    {CounterLines, MetadataLines, HeaderlessLines, HunkBodyLines, FileLines, PathLines}

SeqsUpTo(S, n) == UNION {[1..k -> S] : k \in 0..n}

String(chars) == [type |-> "string", value |-> chars]

NonStrings == {[type |-> "null"], [type |-> "undefined"], [type |-> "number", value |-> 123]}

\* the texts of at most n lines of one family, alone or after a 'diff --git a/f b/f' line
Texts(families, n) ==
    UNION {{join(pre \o ls, NL) : pre \in {<<>>, <<DiffF>>}, ls \in SeqsUpTo(F, n)} :
           F \in families}

\* every such text of at most MaxLines lines, and the values that are no string
ParseInputs == {String(t) : t \in Texts(LineFamilies, MaxLines)} \cup NonStrings

NoResults ==
    [summary |-> null, comments |-> <<>>, hunks |-> <<>>,
     metadata |-> [totalHunks |-> 0, totalComments |-> 0]]

-----------------------------------------------------------------------------
(* SpecParse: one call of parseDiff *)

\* the history before any call, and once a call on diff ended as outcome
NoCalls == [calls |-> 0, first |-> null, last |-> null]
Noted(log, diff, outcome) ==
    [log EXCEPT !.calls = @ + 1,
                !.first = IF @ = null THEN Some([diff |-> diff, outcome |-> outcome])
                          ELSE @]

InitParse ==
    /\ diffData \in ParseInputs
    /\ options = [generateSummary |-> [type |-> "undefined"]]
    /\ pc = "parse"
    /\ hunks = <<>>
    /\ results = NoResults
    /\ hunkIndex = 0
    /\ error = null
    /\ llmLog = <<>>
    /\ parseDiffMock = null
    /\ parseLog = NoCalls
    /\ filterCall = null
    /\ llmCall = null
    /\ other = null

ParseReturns ==
    /\ pc = "parse"
    /\ LET r == parseDiff(diffData)
       IN  ~r.threw /\ hunks' = r.value /\ parseLog' = Noted(parseLog, diffData, r)
    /\ pc' = "returned"
    /\ UNCHANGED <<diffData, options, results, hunkIndex, error, llmLog, parseDiffMock,
                   filterCall, llmCall, other>>

ParseThrows ==
    /\ pc = "parse"
    /\ LET r == parseDiff(diffData)
       IN  r.threw /\ error' = Some(r.message) /\ parseLog' = Noted(parseLog, diffData, r)
    /\ pc' = "threw"
    /\ UNCHANGED <<diffData, options, hunks, results, hunkIndex, llmLog, parseDiffMock,
                   filterCall, llmCall, other>>

NextParse == ParseReturns \/ ParseThrows

SpecParse == InitParse /\ [][NextParse]_vars

-----------------------------------------------------------------------------
(* SpecCalls: parseDiff called again and again *)

CallLines == {HeaderA, AddLine}

CallInputs == {String(t) : t \in Texts({CallLines}, MaxCallLines)}

InitCalls ==
    /\ diffData \in CallInputs
    /\ options = [generateSummary |-> [type |-> "undefined"]]
    /\ pc = "parse"
    /\ hunks = <<>>
    /\ results = NoResults
    /\ hunkIndex = 0
    /\ error = null
    /\ llmLog = <<>>
    /\ parseDiffMock = null
    /\ parseLog = NoCalls
    /\ filterCall = null
    /\ llmCall = null
    /\ other = null

\* the caller calls parseDiff once more; what the last call returned or threw is
\* still in the caller's hands
ParseAgain ==
    /\ pc \in {"returned", "threw"}
    /\ parseLog.calls < MaxCalls
    /\ diffData' \in CallInputs
    /\ pc' = "parse"
    /\ parseLog' = [parseLog EXCEPT !.last = Some(diffData)]
    /\ UNCHANGED <<options, hunks, results, hunkIndex, error, llmLog, parseDiffMock,
                   filterCall, llmCall, other>>

NextCalls == ParseReturns \/ ParseThrows \/ ParseAgain

SpecCalls == InitCalls /\ [][NextCalls]_vars


-----------------------------------------------------------------------------
(* The LLM as reviewer.js sees it: how getSummaryFromLLM and               *)
(* getReviewFromLLM settle                                                  *)

Rejected == [rejects |-> TRUE]
Resolved(v) == [rejects |-> FALSE, value |-> v]

Array(items) == [type |-> "array", items |-> items]
\* a decoded payload object; comments is null when the field is missing
Object(comments) == [type |-> "object", comments |-> comments]

\* the comments a provider returns; the second one carries a filename and a
\* hunkHeader of its own
ProviderComments ==
    {[body |-> "nit", line |-> 5],
     [body |-> "bug", line |-> 6, filename |-> <<"o">>,
      hunkHeader |-> Some([oldStart |-> 1, newStart |-> 1])]}

\* the values a review request may decode to: null, a string, a number, an object
\* without comments, with comments null, with comments a string, with a comment list
Payloads ==
    {[type |-> "null"], String(<<"n", "o">>), [type |-> "number", value |-> 7],
     Object(null), Object(Some([type |-> "null"])), Object(Some(String(<<"n", "o">>)))}
        \cup {Object(Some(Array(cs))) : cs \in SeqsUpTo(ProviderComments, MaxComments)}

ReviewOutcomes == {Rejected} \cup {Resolved(p) : p \in Payloads}

SummaryOutcomes == {Rejected, Resolved("LGTM")}

\* JavaScript truthiness of a value
Truthy(v) ==
    CASE v.type = "string" -> v.value # <<>>
      [] v.type = "number" -> v.value # 0
      [] v.type = "boolean" -> v.value
      [] v.type \in {"null", "undefined"} -> FALSE
      [] OTHER -> TRUE

\* an LLM request as the history records it; hunk is 0 for the summary request
Request(kind, i) == [kind |-> kind, hunk |-> i, settled |-> FALSE, outcome |-> null]

\* the history once the outstanding (last) request settled with outcome o
Settle(log, o) == [log EXCEPT ![Len(log)] = [@ EXCEPT !.settled = TRUE, !.outcome = Some(o)]]

-----------------------------------------------------------------------------
(* reviewer.js *)

\* mutant of InvalidHunk: the !hunk.changes test is missing
InvalidHunk_NoChangesTest(hunk) ==
    IF "type" \in DOMAIN hunk THEN TRUE
    ELSE IF "filename" \notin DOMAIN hunk THEN TRUE
    ELSE hunk.filename = <<>>

\* !hunk || !hunk.filename || !hunk.changes; a hunk is null (or undefined) or an
\* object, which may lack fields
InvalidHunk(hunk) ==
    IF "type" \in DOMAIN hunk THEN TRUE
    ELSE IF "filename" \notin DOMAIN hunk THEN TRUE
    ELSE IF hunk.filename = <<>> THEN TRUE
    ELSE "changes" \notin DOMAIN hunk

\* mutant of Enhance: {filename: hunk.filename, hunkHeader: hunk.hunkHeader, ...comment}
Enhance_CommentWins(comment, hunk) ==
    [f \in DOMAIN comment \cup {"filename", "hunkHeader"} |->
        IF f \in DOMAIN comment THEN comment[f]
        ELSE IF f = "filename" THEN hunk.filename
        ELSE hunk.hunkHeader]

\* {...comment, filename: hunk.filename, hunkHeader: hunk.hunkHeader}
Enhance(comment, hunk) ==
    [f \in DOMAIN comment \cup {"filename", "hunkHeader"} |->
        IF f = "filename" THEN hunk.filename
        ELSE IF f = "hunkHeader" THEN hunk.hunkHeader
        ELSE comment[f]]

\* reviewResponse.comments, null when the property is missing; reading it off a
\* string or a number gives undefined
CommentsOf(reviewResponse) ==
    IF reviewResponse.type = "object" THEN reviewResponse.comments ELSE null

\* the body of reviewHunk's try block from the point its request resolved
Reviewed(hunk, reviewResponse) ==
    IF reviewResponse.type \in {"null", "undefined"}
    THEN Throw("Cannot read properties of null (reading 'comments')")
    ELSE LET comments == CommentsOf(reviewResponse)
         IN  IF comments = null THEN Return(<<>>)
             ELSE IF ~Truthy(Get(comments)) \/ Get(comments).type # "array"
             THEN Return(<<>>)
             ELSE LET items == Get(comments).items
                  IN  Return([k \in 1..Len(items) |-> Enhance(items[k], hunk)])

\* mutant of reviewHunk: the catch block is missing, a rejected request propagates
reviewHunk_NoCatch(hunk, outcome) ==
    IF outcome.rejects THEN Throw("LLM error") ELSE Reviewed(hunk, outcome.value)

\* reviewHunk from the point its request settled: the comments it resolves with.
\* A rejected request and the TypeError of reading .comments of a payload that is
\* null both end in the catch block, which returns [].
reviewHunk(hunk, outcome) ==
    IF outcome.rejects THEN Return(<<>>)
    ELSE LET r == Reviewed(hunk, outcome.value)
         IN  IF r.threw THEN Return(<<>>) ELSE r

\* generateSummary from the point the request settled
generateSummary(outcome) ==
    IF outcome.rejects THEN "Summary generation failed" ELSE outcome.value

\* mutant of WantsSummary: if (options.generateSummary)
WantsSummary_Truthy(opts) == Truthy(opts.generateSummary)

\* options.generateSummary !== false
WantsSummary(opts) ==
    ~(opts.generateSummary.type = "boolean" /\ ~opts.generateSummary.value)

\* mutant of PushComments: results.comments.unshift(...hunkComments)
PushComments_Unshift(comments, hunkComments) == hunkComments \o comments

\* results.comments.push(...hunkComments)
PushComments(comments, hunkComments) == comments \o hunkComments

\* mutant of Reject: the caught Error is rethrown as it is
Reject_Unwrapped(res, i, log, message) ==
    /\ pc' = "rejected"
    /\ error' = Some(message)
    /\ results' = res
    /\ hunkIndex' = i
    /\ llmLog' = log

\* the call ends by throwing `Review failed: ${error.message}`
Reject(res, i, log, message) ==
    /\ pc' = "rejected"
    /\ error' = Some("Review failed: " \o message)
    /\ results' = res
    /\ hunkIndex' = i
    /\ llmLog' = log

\* mutant of Loop: metadata.totalComments is never assigned
Loop_NoTotal(res, i, log) ==
    IF i > Len(res.hunks)
    THEN /\ pc' = "resolved"
         /\ results' = res
         /\ hunkIndex' = i
         /\ error' = error
         /\ llmLog' = log
    ELSE IF InvalidHunk(res.hunks[i])
    THEN Reject(res, i, log, "Invalid hunk data")
    ELSE /\ pc' = "review"
         /\ results' = res
         /\ hunkIndex' = i
         /\ error' = error
         /\ llmLog' = Append(log, Request("review", i))

\* mutant of Loop: hunks.map(hunk => this.reviewHunk(hunk)), the next hunk's request
\* is issued without awaiting this one's
Loop_FanOut(res, i, log) ==
    IF i > Len(res.hunks)
    THEN /\ pc' = "resolved"
         /\ results' = [res EXCEPT !.metadata.totalComments = Len(res.comments)]
         /\ hunkIndex' = i
         /\ error' = error
         /\ llmLog' = log
    ELSE IF InvalidHunk(res.hunks[i])
    THEN Reject(res, i, log, "Invalid hunk data")
    ELSE /\ pc' = "review"
         /\ results' = res
         /\ hunkIndex' = i
         /\ error' = error
         /\ llmLog' = IF i < Len(res.hunks)
                       THEN log \o <<Request("review", i), Request("review", i + 1)>>
                       ELSE Append(log, Request("review", i))

\* the for..of loop from hunk i on, up to the next await or to the end of the call
Loop(res, i, log) ==
    IF i > Len(res.hunks)
    THEN /\ pc' = "resolved"
         /\ results' = [res EXCEPT !.metadata.totalComments = Len(res.comments)]
         /\ hunkIndex' = i
         /\ error' = error
         /\ llmLog' = log
    ELSE IF InvalidHunk(res.hunks[i])
    THEN Reject(res, i, log, "Invalid hunk data")
    ELSE /\ pc' = "review"
         /\ results' = res
         /\ hunkIndex' = i
         /\ error' = error
         /\ llmLog' = Append(log, Request("review", i))

\* mutant of ReviewRejectsInput: the Error is thrown inside the try block
ReviewRejectsInput_Wrapped ==
    /\ pc = "call"
    /\ ~IsNonEmptyString(diffData)
    /\ pc' = "rejected"
    /\ error' = Some("Review failed: Valid diff data is required")
    /\ UNCHANGED <<diffData, options, hunks, results, hunkIndex, llmLog,
                   parseDiffMock, parseLog,
                   filterCall, llmCall, other>>

\* reviewChanges throws 'Valid diff data is required'
ReviewRejectsInput ==
    /\ pc = "call"
    /\ ~IsNonEmptyString(diffData)
    /\ pc' = "rejected"
    /\ error' = Some("Valid diff data is required")
    /\ UNCHANGED <<diffData, options, hunks, results, hunkIndex, llmLog,
                   parseDiffMock, parseLog,
                   filterCall, llmCall, other>>

\* reviewChanges from the call to its first await (or to its end)
ReviewStart ==
    /\ pc = "call"
    /\ IsNonEmptyString(diffData)
    /\ LET r == IF parseDiffMock = null THEN parseDiff(diffData)
                ELSE Throw(Get(parseDiffMock))
       IN  /\ parseLog' = Noted(parseLog, diffData, r)
           /\ IF r.threw
              THEN /\ Reject(results, hunkIndex, llmLog, r.message)
                   /\ hunks' = hunks
              ELSE LET res == [results EXCEPT !.hunks = r.value,
                                              !.metadata.totalHunks = Len(r.value)]
                   IN  /\ hunks' = r.value
                       /\ IF WantsSummary(options)
                          THEN /\ pc' = "summary"
                               /\ results' = res
                               /\ llmLog' = Append(llmLog, Request("summary", 0))
                               /\ UNCHANGED <<hunkIndex, error>>
                          ELSE Loop(res, 1, llmLog)
    /\ UNCHANGED <<diffData, options, parseDiffMock,
                   filterCall, llmCall, other>>

\* mutant of SummarySettles: generateSummary has no catch block
SummarySettles_Aborts ==
    /\ pc = "summary"
    /\ \E o \in SummaryOutcomes :
          IF o.rejects
          THEN Reject(results, hunkIndex, Settle(llmLog, o), "LLM error")
          ELSE Loop([results EXCEPT !.summary = Some(generateSummary(o))], 1,
                    Settle(llmLog, o))
    /\ UNCHANGED <<diffData, options, hunks, parseDiffMock, parseLog,
                   filterCall, llmCall, other>>

\* the summary request settles: reviewChanges runs on to its next await
SummarySettles ==
    /\ pc = "summary"
    /\ \E o \in SummaryOutcomes :
          Loop([results EXCEPT !.summary = Some(generateSummary(o))], 1, Settle(llmLog, o))
    /\ UNCHANGED <<diffData, options, hunks, parseDiffMock, parseLog,
                   filterCall, llmCall, other>>

\* the review request of the current hunk settles: reviewChanges runs on
HunkSettles ==
    /\ pc = "review"
    /\ \E o \in ReviewOutcomes :
          LET r == reviewHunk(hunks[hunkIndex], o)
          IN  IF r.threw
              THEN Reject(results, hunkIndex, Settle(llmLog, o), r.message)
              ELSE Loop([results EXCEPT !.comments = PushComments(@, r.value)],
                        hunkIndex + 1, Settle(llmLog, o))
    /\ UNCHANGED <<diffData, options, hunks, parseDiffMock, parseLog,
                   filterCall, llmCall, other>>

-----------------------------------------------------------------------------
(* Spec: one call of reviewChanges *)

ReviewInputs == {String(t) : t \in Texts({FileLines}, MaxReviewLines)} \cup NonStrings

Options ==
    {[generateSummary |-> v] :
        v \in {[type |-> "undefined"], [type |-> "null"], [type |-> "number", value |-> 0],
               [type |-> "boolean", value |-> TRUE], [type |-> "boolean", value |-> FALSE]}}

Init ==
    /\ diffData \in ReviewInputs
    /\ options \in Options
    /\ pc = "call"
    /\ hunks = <<>>
    /\ results = NoResults
    /\ hunkIndex = 0
    /\ error = null
    /\ llmLog = <<>>
    /\ parseDiffMock = null
    /\ parseLog = NoCalls
    /\ filterCall = null
    /\ llmCall = null
    /\ other = null

Next == ReviewRejectsInput \/ ReviewStart \/ SummarySettles \/ HunkSettles

Spec == Init /\ [][Next]_vars

-----------------------------------------------------------------------------
(* SpecMock: one call of reviewChanges whose ./parseDiff may be a mock that throws *)

ParseDiffMocks == {null, Some("Invalid diff format")}

InitMock ==
    /\ diffData \in ReviewInputs
    /\ options \in Options
    /\ pc = "call"
    /\ hunks = <<>>
    /\ results = NoResults
    /\ hunkIndex = 0
    /\ error = null
    /\ llmLog = <<>>
    /\ parseDiffMock \in ParseDiffMocks
    /\ parseLog = NoCalls
    /\ filterCall = null
    /\ llmCall = null
    /\ other = null

SpecMock == InitMock /\ [][Next]_vars

-----------------------------------------------------------------------------
(* SpecShared: two calls of reviewChanges on one CodeReviewer, interleaved at  *)
(* their awaits.  The variables hold the locals of the call that runs; other  *)
(* holds the locals of the call that waits.                                   *)

\* the locals of the call that runs
CallState ==
    [diffData |-> diffData, options |-> options, pc |-> pc, hunks |-> hunks,
     results |-> results, hunkIndex |-> hunkIndex, error |-> error, llmLog |-> llmLog]

\* the locals of a call that has not started
NewCall(d, o) ==
    [diffData |-> d, options |-> o, pc |-> "call", hunks |-> <<>>, results |-> NoResults,
     hunkIndex |-> 0, error |-> null, llmLog |-> <<>>]

\* the call is suspended at an await
Suspended(c) == c.pc \in {"summary", "review"}

\* mutant of Switch: results is a field of the CodeReviewer, one object for both calls
Switch_SharedResults ==
    /\ other # null
    /\ other' = Some([call |-> CallState,
                      interleaved |-> \/ Get(other).interleaved
                                      \/ Suspended(CallState) /\ Suspended(Get(other).call)])
    /\ diffData' = Get(other).call.diffData
    /\ options' = Get(other).call.options
    /\ pc' = Get(other).call.pc
    /\ hunks' = Get(other).call.hunks
    /\ results' = results
    /\ hunkIndex' = Get(other).call.hunkIndex
    /\ error' = Get(other).call.error
    /\ llmLog' = Get(other).call.llmLog
    /\ UNCHANGED <<parseDiffMock, parseLog, filterCall, llmCall>>

\* the event loop turns from the call that runs to the call that waits. Every local
\* of reviewChanges, the results object included, belongs to its call; interleaved
\* notes that both calls were suspended at an await at the same time.
Switch ==
    /\ other # null
    /\ other' = Some([call |-> CallState,
                      interleaved |-> \/ Get(other).interleaved
                                      \/ Suspended(CallState) /\ Suspended(Get(other).call)])
    /\ diffData' = Get(other).call.diffData
    /\ options' = Get(other).call.options
    /\ pc' = Get(other).call.pc
    /\ hunks' = Get(other).call.hunks
    /\ results' = Get(other).call.results
    /\ hunkIndex' = Get(other).call.hunkIndex
    /\ error' = Get(other).call.error
    /\ llmLog' = Get(other).call.llmLog
    /\ UNCHANGED <<parseDiffMock, parseLog, filterCall, llmCall>>

\* the first call reviews two hunks of two files and asks for no summary
FirstCalls ==
    {NewCall(String(join(<<DiffF, AddLine, DiffG, AddLine>>, NL)),
             [generateSummary |-> [type |-> "boolean", value |-> FALSE]])}

\* the second call is given one hunk of a third file and asks for no summary, or is
\* given a hunk without a file (which is rejected as invalid hunk data) or null, and
\* asks for a summary
SecondCalls ==
    {NewCall(String(join(<<DiffSpace, HeaderA, DelLine>>, NL)),
             [generateSummary |-> [type |-> "boolean", value |-> FALSE]])}
        \cup {NewCall(d, [generateSummary |-> [type |-> "undefined"]]) :
                 d \in {String(AddLine), [type |-> "null"]}}

InitShared ==
    /\ \E c \in FirstCalls :
          /\ diffData = c.diffData
          /\ options = c.options
          /\ pc = c.pc
          /\ hunks = c.hunks
          /\ results = c.results
          /\ hunkIndex = c.hunkIndex
          /\ error = c.error
          /\ llmLog = c.llmLog
    /\ parseDiffMock = null
    /\ parseLog = NoCalls
    /\ filterCall = null
    /\ llmCall = null
    /\ other \in {Some([call |-> c, interleaved |-> FALSE]) : c \in SecondCalls}

NextShared == ReviewRejectsInput \/ ReviewStart \/ SummarySettles \/ HunkSettles \/ Switch

SpecShared == InitShared /\ [][NextShared]_vars

-----------------------------------------------------------------------------
(* SpecHunk: one direct call of reviewHunk *)

\* null, undefined, an object with neither filename nor changes, one without
\* changes, one without filename, one whose filename is ''
InvalidHunks ==
    {[type |-> "null"], [type |-> "undefined"],
     [hunkHeader |-> null],
     [filename |-> <<"f">>],
     [changes |-> <<>>],
     [filename |-> <<>>, changes |-> <<>>, hunkHeader |-> null]}

\* every hunk the parser returns for the texts given to reviewChanges
ParserHunks ==
    UNION {LET r == parseDiff(d) IN {r.value[k] : k \in 1..Len(r.value)} :
           d \in {v \in ReviewInputs : IsNonEmptyString(v)}}

\* those, the invalid ones, and a hunk of f whose changes are []
HunkInputs ==
    ParserHunks \cup InvalidHunks
        \cup {[filename |-> <<"f">>, changes |-> <<>>, hunkHeader |-> null]}

InitHunk ==
    /\ diffData = [type |-> "undefined"]
    /\ options = [generateSummary |-> [type |-> "undefined"]]
    /\ pc = "hunkCall"
    /\ hunks \in {<<h>> : h \in HunkInputs}
    /\ results = NoResults
    /\ hunkIndex = 1
    /\ error = null
    /\ llmLog = <<>>
    /\ parseDiffMock = null
    /\ parseLog = NoCalls
    /\ filterCall = null
    /\ llmCall = null
    /\ other = null

\* reviewHunk throws 'Invalid hunk data'
HunkRejectsInput ==
    /\ pc = "hunkCall"
    /\ InvalidHunk(hunks[hunkIndex])
    /\ pc' = "hunkRejected"
    /\ error' = Some("Invalid hunk data")
    /\ UNCHANGED <<diffData, options, hunks, results, hunkIndex, llmLog,
                   parseDiffMock, parseLog,
                   filterCall, llmCall, other>>

\* reviewHunk calls getReviewFromLLM(hunk) and awaits it
HunkRequest ==
    /\ pc = "hunkCall"
    /\ ~InvalidHunk(hunks[hunkIndex])
    /\ pc' = "hunkReview"
    /\ llmLog' = Append(llmLog, Request("review", hunkIndex))
    /\ UNCHANGED <<diffData, options, hunks, results, hunkIndex, error,
                   parseDiffMock, parseLog,
                   filterCall, llmCall, other>>

\* the request settles and reviewHunk ends; the comment list it resolves with is
\* kept in results.comments
HunkReviewEnds ==
    /\ pc = "hunkReview"
    /\ \E o \in ReviewOutcomes :
          LET r == reviewHunk(hunks[hunkIndex], o)
          IN  /\ llmLog' = Settle(llmLog, o)
              /\ IF r.threw
                 THEN /\ pc' = "hunkRejected"
                      /\ error' = Some(r.message)
                      /\ results' = results
                 ELSE /\ pc' = "hunkResolved"
                      /\ error' = error
                      /\ results' = [results EXCEPT !.comments = r.value]
    /\ UNCHANGED <<diffData, options, hunks, hunkIndex, parseDiffMock, parseLog,
                   filterCall, llmCall, other>>

NextHunk == HunkRejectsInput \/ HunkRequest \/ HunkReviewEnds

SpecHunk == InitHunk /\ [][NextHunk]_vars

-----------------------------------------------------------------------------
(* SpecComments: a call of reviewChanges or a direct call of reviewHunk *)

InitComments == Init \/ InitHunk

NextComments == Next \/ NextHunk

SpecComments == InitComments /\ [][NextComments]_vars

-----------------------------------------------------------------------------
(* filterComments.  Arrays are objects: heap[r] is the content of the array with
   reference r, and the comments argument is the array with reference 1. *)

\* String.prototype.includes
includes(s, p) == \E i \in 0..(Len(s) - Len(p)) : SubSeq(s, i + 1, i + Len(p)) = p

\* Array.isArray(v) ? v : [v], for a pattern or a list of patterns
PatternsOf(v) == IF v.type = "array" THEN v.items ELSE <<v.value>>

\* mutant of Spread: let filtered = comments
Spread_Alias(st) == st

\* let filtered = [...comments]
Spread(st) == [heap |-> Append(st.heap, st.heap[st.filtered]), filtered |-> Len(st.heap) + 1]

\* mutant of FilterTo: the comments kept come out in reverse order
FilterTo_Reversed(st, keep) ==
    LET items == st.heap[st.filtered]
        kept == SelectSeq([k \in 1..Len(items) |-> k], LAMBDA k : k \in keep)
    IN  [heap |-> Append(st.heap, [j \in 1..Len(kept) |-> items[kept[Len(kept) + 1 - j]]]),
         filtered |-> Len(st.heap) + 1]

\* filtered = filtered.filter(...), keeping the positions in keep
FilterTo(st, keep) ==
    LET items == st.heap[st.filtered]
        kept == SelectSeq([k \in 1..Len(items) |-> k], LAMBDA k : k \in keep)
    IN  [heap |-> Append(st.heap, [j \in 1..Len(kept) |-> items[kept[j]]]),
         filtered |-> Len(st.heap) + 1]

\* c.body && c.body.length >= filters.minLength
MinLengthStep(st, filters) ==
    IF ~Truthy(filters.minLength) THEN st
    ELSE LET items == st.heap[st.filtered]
         IN  FilterTo(st, {k \in 1..Len(items) :
                              /\ items[k].body # <<>>
                              /\ Len(items[k].body) >= filters.minLength.value})

\* !excludePatterns.some(pattern => c.filename.includes(pattern))
ExcludeStep(st, filters) ==
    IF ~Truthy(filters.excludeFiles) THEN st
    ELSE LET items == st.heap[st.filtered]
             excludePatterns == PatternsOf(filters.excludeFiles)
         IN  FilterTo(st, {k \in 1..Len(items) :
                              ~\E n \in 1..Len(excludePatterns) :
                                  includes(items[k].filename, excludePatterns[n])})

\* includePatterns.some(pattern => c.filename.includes(pattern))
IncludeStep(st, filters) ==
    IF ~Truthy(filters.includeFiles) THEN st
    ELSE LET items == st.heap[st.filtered]
             includePatterns == PatternsOf(filters.includeFiles)
         IN  FilterTo(st, {k \in 1..Len(items) :
                              \E n \in 1..Len(includePatterns) :
                                  includes(items[k].filename, includePatterns[n])})

\* filterComments(comments, filters): the heap it leaves and the array it returns
filterComments(comments, filters) ==
    IncludeStep(ExcludeStep(MinLengthStep(Spread([heap |-> <<comments>>, filtered |-> 1]),
                                          filters), filters), filters)

-----------------------------------------------------------------------------
(* SpecFilter: one call of filterComments *)

\* the comments: bodies '', 'x', 'xyz' in the files a, ab, c
FilterableComments ==
    {[body |-> <<>>, filename |-> <<"a">>],
     [body |-> <<"x">>, filename |-> <<"a", "b">>],
     [body |-> <<"x", "y", "z">>, filename |-> <<"c">>],
     [body |-> <<"x", "y", "z">>, filename |-> <<"a">>]}

\* a pattern option: absent, '', 'a', [], ['a', 'b']
PatternOptions ==
    {[type |-> "undefined"], String(<<>>), String(<<"a">>),
     Array(<<>>), Array(<< <<"a">>, <<"b">> >>)}

Filters ==
    [minLength : {[type |-> "undefined"]} \cup {[type |-> "number", value |-> n] : n \in 0..2},
     excludeFiles : PatternOptions,
     includeFiles : PatternOptions]

InitFilter ==
    /\ diffData = [type |-> "undefined"]
    /\ options = [generateSummary |-> [type |-> "undefined"]]
    /\ pc = "filter"
    /\ hunks = <<>>
    /\ results = NoResults
    /\ hunkIndex = 0
    /\ error = null
    /\ llmLog = <<>>
    /\ parseDiffMock = null
    /\ parseLog = NoCalls
    /\ filterCall \in [comments : SeqsUpTo(FilterableComments, MaxFilterComments),
                        filters : Filters, after : {null}, returned : {null},
                        again : {null}]
    /\ llmCall = null
    /\ other = null

\* the call returns: what the comments array holds now, and the array returned
FilterReturns ==
    /\ pc = "filter"
    /\ LET st == filterComments(filterCall.comments, filterCall.filters)
       IN  filterCall' = [filterCall EXCEPT
                             !.after = Some(st.heap[1]),
                             !.returned = Some([ref |-> st.filtered,
                                                items |-> st.heap[st.filtered]])]
    /\ pc' = "filtered"
    /\ UNCHANGED <<diffData, options, hunks, results, hunkIndex, error, llmLog,
                   parseDiffMock, parseLog, llmCall, other>>

\* the caller filters the array it got once more, with the same filters
FilterAgain ==
    /\ pc = "filtered"
    /\ LET st == filterComments(Get(filterCall.returned).items, filterCall.filters)
       IN  filterCall' = [filterCall EXCEPT !.again = Some(st.heap[st.filtered])]
    /\ pc' = "refiltered"
    /\ UNCHANGED <<diffData, options, hunks, results, hunkIndex, error, llmLog,
                   parseDiffMock, parseLog, llmCall, other>>

NextFilter == FilterReturns \/ FilterAgain

SpecFilter == InitFilter /\ [][NextFilter]_vars

-----------------------------------------------------------------------------
(* llm/providers/openai.js.  A temperature is a number of tenths. *)

DefaultModel == <<"g", "p", "t", "-", "4", "o", "-", "m", "i", "n", "i">>
DefaultMaxTokens == 1000
DefaultTemperature == 1

undefined == [type |-> "undefined"]
Number(n) == [type |-> "number", value |-> n]

\* a || b
Or(a, b) == IF Truthy(a) THEN a ELSE b

\* mutant of MessagesValid: the loop over the messages is missing
MessagesValid_NoLoop(messages) == TRUE

\* no message fails the test !msg.role || !msg.content
MessagesValid(messages) ==
    \A k \in 1..Len(messages.items) :
        Truthy(messages.items[k].role) /\ Truthy(messages.items[k].content)

\* formatRequest(messages, options): the request body, or the Error thrown
formatRequest(messages, opts) ==
    IF messages.type # "array" THEN Throw("Messages must be a non-empty array")
    ELSE IF Len(messages.items) = 0 THEN Throw("Messages must be a non-empty array")
    ELSE IF ~MessagesValid(messages) THEN Throw("Each message must have role and content")
    ELSE Return([model |-> Or(opts.model, String(DefaultModel)),
                 messages |-> messages,
                 max_tokens |-> Or(opts.maxTokens, Number(DefaultMaxTokens)),
                 temperature |-> Or(opts.temperature, Number(DefaultTemperature))])

Whitespace == {" ", "\n", "\t"}

\* String.prototype.trim
RECURSIVE trimStart(_)
trimStart(s) == IF s # <<>> /\ Head(s) \in Whitespace THEN trimStart(Tail(s)) ELSE s
RECURSIVE trimEnd(_)
trimEnd(s) ==
    IF s # <<>> /\ s[Len(s)] \in Whitespace THEN trimEnd(SubSeq(s, 1, Len(s) - 1)) ELSE s
trim(s) == trimEnd(trimStart(s))

\* responseData?.choices?.[0]?.message?.content
ContentOf(responseData) ==
    IF responseData = null THEN undefined
    ELSE IF Get(responseData).choices = null THEN undefined
    ELSE IF Get(Get(responseData).choices) = <<>> THEN undefined
    ELSE IF Get(Get(responseData).choices)[1].message = null THEN undefined
    ELSE Get(Get(Get(responseData).choices)[1].message).content

\* mutant of Truncated: the truncation is an error
Truncated_Throws(choice, content) == Throw("OpenAI response was truncated due to token limit")

\* parseResponse from the truncation check on: a warning when finish_reason is
\* 'length', then the test of the content
Truncated(choice, content) ==
    LET warned == IF choice.finish_reason = Some("length")
                  THEN <<"OpenAI response was truncated due to token limit">>
                  ELSE <<>>
    IN  IF ~Truthy(content) \/ Len(trim(content.value)) = 0
        THEN Throw("Empty response from OpenAI") @@ [warnings |-> warned]
        ELSE Return(content.value) @@ [warnings |-> warned]

\* parseResponse(responseData): the content returned or the Error thrown, and the
\* warnings written to the console
parseResponse(responseData) ==
    IF ~Truthy(ContentOf(responseData))
    THEN Throw("Invalid OpenAI response format") @@ [warnings |-> <<>>]
    ELSE Truncated(Get(Get(responseData).choices)[1], ContentOf(responseData))

-----------------------------------------------------------------------------
(* SpecProvider: one call of formatRequest or of parseResponse *)

\* a message's role: missing, '', 'u', 's'; its content: missing, '', 'c'
Roles == {undefined, String(<<>>), String(<<"u">>), String(<<"s">>)}
Contents == {undefined, String(<<>>), String(<<"c">>)}
Messages == [role : Roles, content : Contents]

\* the messages argument: a list of messages, or null, undefined, a string
MessageLists ==
    {Array(ms) : ms \in SeqsUpTo(Messages, MaxMessages)}
        \cup {[type |-> "null"], undefined, String(<<"m">>)}

\* the options: each absent, falsy or truthy
RequestOptions ==
    [model : {undefined, String(<<>>), String(<<"m">>)},
     maxTokens : {undefined, Number(0), Number(5)},
     temperature : {undefined, Number(0), Number(7)}]

\* the content of a response message: missing, null, '', ' ', 'ok', ' ok\n'
ResponseContents ==
    {undefined, [type |-> "null"], String(<<>>), String(<<" ">>), String(<<"o", "k">>),
     String(<<" ", "o", "k", "\n">>)}

FinishReasons == {null, Some("stop"), Some("length")}

\* response.data: null, without choices, with no choice, with a choice without
\* message, with a choice that has a message
Responses ==
    {null, Some([choices |-> null]), Some([choices |-> Some(<<>>)])}
        \cup {Some([choices |-> Some(<<[message |-> m, finish_reason |-> f]>>)]) :
                 m \in {null} \cup {Some([content |-> c]) : c \in ResponseContents},
                 f \in FinishReasons}

ProviderCalls ==
    {[op |-> "formatRequest", messages |-> m, options |-> o, result |-> null] :
        m \in MessageLists, o \in RequestOptions}
    \cup {[op |-> "parseResponse", responseData |-> r, result |-> null] : r \in Responses}

InitProvider ==
    /\ diffData = [type |-> "undefined"]
    /\ options = [generateSummary |-> [type |-> "undefined"]]
    /\ pc = "provider"
    /\ hunks = <<>>
    /\ results = NoResults
    /\ hunkIndex = 0
    /\ error = null
    /\ llmLog = <<>>
    /\ parseDiffMock = null
    /\ parseLog = NoCalls
    /\ filterCall = null
    /\ llmCall \in ProviderCalls
    /\ other = null

FormatRequestEnds ==
    /\ pc = "provider"
    /\ llmCall.op = "formatRequest"
    /\ llmCall' = [llmCall EXCEPT
                      !.result = Some(formatRequest(llmCall.messages, llmCall.options))]
    /\ pc' = "provided"
    /\ UNCHANGED <<diffData, options, hunks, results, hunkIndex, error, llmLog,
                   parseDiffMock, parseLog, filterCall, other>>

ParseResponseEnds ==
    /\ pc = "provider"
    /\ llmCall.op = "parseResponse"
    /\ llmCall' = [llmCall EXCEPT !.result = Some(parseResponse(llmCall.responseData))]
    /\ pc' = "provided"
    /\ UNCHANGED <<diffData, options, hunks, results, hunkIndex, error, llmLog,
                   parseDiffMock, parseLog, filterCall, other>>

NextProvider == FormatRequestEnds \/ ParseResponseEnds

SpecProvider == InitProvider /\ [][NextProvider]_vars

-----------------------------------------------------------------------------
(* llm/index.js: LLMCoordinator.makeRequest *)

\* provider.name
ProviderName == "openai"

\* mutant of ConfigError: the API key is tested first
ConfigError_KeyFirst(endpoint, apiKey) ==
    IF ~Truthy(apiKey) THEN Some("LLM_API_KEY is required")
    ELSE IF ~Truthy(endpoint) THEN Some("LLM_ENDPOINT is required")
    ELSE null

\* the Error makeRequest throws before its try block, if any
ConfigError(endpoint, apiKey) ==
    IF ~Truthy(endpoint) THEN Some("LLM_ENDPOINT is required")
    ELSE IF ~Truthy(apiKey) THEN Some("LLM_API_KEY is required")
    ELSE null

\* a caught error: its message and, for an HTTP error, the upstream response
Caught(message, response) == [message |-> message, response |-> response]

\* error.response.data?.error?.message
UpstreamMessage(response) ==
    IF response.data = null THEN null
    ELSE IF Get(response.data).error = null THEN null
    ELSE Get(Get(response.data).error).message

\* mutant of Wrapped: the catch block logs the error and returns ''
Wrapped_Swallowed(err) == Return(<<>>)

\* the catch block of makeRequest
Wrapped(err) ==
    IF err.response # null
    THEN LET response == Get(err.response)
             upstream == UpstreamMessage(response)
         IN  Throw("LLM API Error (" \o ProviderName \o "): " \o response.status \o " - "
                   \o (IF upstream # null /\ Get(upstream) # "" THEN Get(upstream)
                       ELSE err.message))
    ELSE Throw("LLM Request Failed (" \o ProviderName \o "): " \o err.message)

\* how axios.post settles: with a response, with an HTTP error that carries the
\* upstream response, or with a network error
HttpErrors ==
    {[rejects |-> TRUE, message |-> "Request failed with status code " \o st,
      response |-> Some([status |-> st, data |-> d])] :
        st \in {"429", "500"},
        d \in {null, Some([error |-> null])}
               \cup {Some([error |-> Some([message |-> m])]) :
                        m \in {null, Some(""), Some("Rate limit reached")}}}

NetworkErrors == {[rejects |-> TRUE, message |-> "connect ECONNREFUSED", response |-> null]}

PostOutcomes ==
    {[rejects |-> FALSE, data |-> r] : r \in Responses} \cup HttpErrors \cup NetworkErrors

-----------------------------------------------------------------------------
(* SpecRequest: one call of makeRequest *)

\* endpoint and API key: undefined, '', or set
Endpoints == {undefined, String(<<>>), String(<<"e">>)}
ApiKeys == {undefined, String(<<>>), String(<<"k">>)}

\* the options getReview and getSummary pass
CoordinatorOptions ==
    {[model |-> undefined, maxTokens |-> Number(n), temperature |-> Number(1)] :
        n \in {1000, 1500}}

RequestCalls ==
    [op : {"makeRequest"}, endpoint : Endpoints, apiKey : ApiKeys,
     messages : MessageLists, options : CoordinatorOptions,
     formatted : {0}, posts : {<<>>}, result : {null}]

InitRequest ==
    /\ diffData = [type |-> "undefined"]
    /\ options = [generateSummary |-> [type |-> "undefined"]]
    /\ pc = "request"
    /\ hunks = <<>>
    /\ results = NoResults
    /\ hunkIndex = 0
    /\ error = null
    /\ llmLog = <<>>
    /\ parseDiffMock = null
    /\ parseLog = NoCalls
    /\ filterCall = null
    /\ llmCall \in RequestCalls
    /\ other = null

\* makeRequest throws 'LLM_ENDPOINT is required' or 'LLM_API_KEY is required'
RequestRejectsConfig ==
    /\ pc = "request"
    /\ ConfigError(llmCall.endpoint, llmCall.apiKey) # null
    /\ llmCall' = [llmCall EXCEPT
                      !.result = Some(Throw(Get(ConfigError(llmCall.endpoint, llmCall.apiKey))))]
    /\ pc' = "requested"
    /\ UNCHANGED <<diffData, options, hunks, results, hunkIndex, error, llmLog,
                   parseDiffMock, parseLog, filterCall, other>>

\* makeRequest formats the request and posts it, or rejects when formatting throws
RequestStart ==
    /\ pc = "request"
    /\ ConfigError(llmCall.endpoint, llmCall.apiKey) = null
    /\ LET requestBody == formatRequest(llmCall.messages, llmCall.options)
       IN  IF requestBody.threw
           THEN /\ llmCall' = [llmCall EXCEPT
                                  !.formatted = @ + 1,
                                  !.result = Some(Wrapped(Caught(requestBody.message, null)))]
                /\ pc' = "requested"
           ELSE /\ llmCall' = [llmCall EXCEPT
                                  !.formatted = @ + 1,
                                  !.posts = Append(@, [endpoint |-> llmCall.endpoint,
                                                       body |-> requestBody.value,
                                                       outcome |-> null])]
                /\ pc' = "post"
    /\ UNCHANGED <<diffData, options, hunks, results, hunkIndex, error, llmLog,
                   parseDiffMock, parseLog, filterCall, other>>

\* the POST settles: makeRequest parses the response, or wraps the error
PostSettles ==
    /\ pc = "post"
    /\ \E o \in PostOutcomes :
          LET posts == [llmCall.posts EXCEPT ![Len(llmCall.posts)].outcome = Some(o)]
              content == IF o.rejects THEN Throw(o.message) ELSE parseResponse(o.data)
          IN  llmCall' = [llmCall EXCEPT
                             !.posts = posts,
                             !.result =
                                 Some(IF o.rejects THEN Wrapped(Caught(o.message, o.response))
                                      ELSE IF content.threw
                                      THEN Wrapped(Caught(content.message, null))
                                      ELSE Return(content.value))]
    /\ pc' = "requested"
    /\ UNCHANGED <<diffData, options, hunks, results, hunkIndex, error, llmLog,
                   parseDiffMock, parseLog, filterCall, other>>

NextRequest == RequestRejectsConfig \/ RequestStart \/ PostSettles

SpecRequest == InitRequest /\ [][NextRequest]_vars

-----------------------------------------------------------------------------
(* JSON text.  A decoded object is the list of its members in insertion     *)
(* order; numbers are integers.                                             *)

JsonObject(members) == [type |-> "object", members |-> members]
Member(key, value) == [key |-> key, value |-> value]
Boolean(b) == [type |-> "boolean", value |-> b]

QUOTE == "\""
BACKSLASH == "\\"
NULL == <<"n", "u", "l", "l">>
TRUE_LIT == <<"t", "r", "u", "e">>
FALSE_LIT == <<"f", "a", "l", "s", "e">>

\* the decimal digits of a natural number
DigitChar(d) == CHOOSE c \in Digit : DigitValue(c) = d
RECURSIVE Digits(_)
Digits(n) == IF n < 10 THEN <<DigitChar(n)>> ELSE Digits(n \div 10) \o <<DigitChar(n % 10)>>

\* the characters JSON.stringify writes for the characters of a string
RECURSIVE Escaped(_)
Escaped(s) ==
    IF s = <<>> THEN <<>>
    ELSE (CASE Head(s) = QUOTE -> <<BACKSLASH, QUOTE>>
            [] Head(s) = BACKSLASH -> <<BACKSLASH, BACKSLASH>>
            [] Head(s) = "\n" -> <<BACKSLASH, "n">>
            [] Head(s) = "\t" -> <<BACKSLASH, "t">>
            [] Head(s) = "\r" -> <<BACKSLASH, "r">>
            [] OTHER -> <<Head(s)>>) \o Escaped(Tail(s))

\* JSON.stringify(v)
RECURSIVE stringify(_)
stringify(v) ==
    CASE v.type = "null" -> NULL
      [] v.type = "boolean" -> IF v.value THEN TRUE_LIT ELSE FALSE_LIT
      [] v.type = "number" ->
            IF v.value < 0 THEN <<"-">> \o Digits(0 - v.value) ELSE Digits(v.value)
      [] v.type = "string" -> <<QUOTE>> \o Escaped(v.value) \o <<QUOTE>>
      [] v.type = "array" ->
            <<"[">> \o join([k \in 1..Len(v.items) |-> stringify(v.items[k])], ",")
                \o <<"]">>
      [] v.type = "object" ->
            <<"{">> \o join([k \in 1..Len(v.members) |->
                                <<QUOTE>> \o Escaped(v.members[k].key) \o <<QUOTE, ":">>
                                    \o stringify(v.members[k].value)], ",")
                \o <<"}">>

\* the white space of the JSON grammar
JsonWhitespace == {" ", "\n", "\t", "\r"}

RECURSIVE SkipWhitespace(_, _)
SkipWhitespace(s, i) ==
    IF i <= Len(s) /\ s[i] \in JsonWhitespace THEN SkipWhitespace(s, i + 1) ELSE i

\* what a grammar rule tried at a position gives: no match, or a value and the
\* position after it
NoMatch == [ok |-> FALSE]
Match(v, i) == [ok |-> TRUE, value |-> v, next |-> i]

\* the character an escape sequence \c stands for (\b, \f and \u are left out)
Unescaped(c) ==
    CASE c = QUOTE -> Some(QUOTE)
      [] c = BACKSLASH -> Some(BACKSLASH)
      [] c = "/" -> Some("/")
      [] c = "n" -> Some("\n")
      [] c = "t" -> Some("\t")
      [] c = "r" -> Some("\r")
      [] OTHER -> null

\* the characters of a string literal from position i (after the opening quote) to
\* its closing quote; a control character is no string character
RECURSIVE JsonChars(_, _, _)
JsonChars(s, i, acc) ==
    IF i > Len(s) THEN NoMatch
    ELSE IF s[i] = QUOTE THEN Match(acc, i + 1)
    ELSE IF s[i] = BACKSLASH
         THEN IF i + 1 > Len(s) THEN NoMatch
              ELSE IF Unescaped(s[i + 1]) = null THEN NoMatch
              ELSE JsonChars(s, i + 2, Append(acc, Get(Unescaped(s[i + 1]))))
    ELSE IF s[i] \in {"\n", "\t", "\r"} THEN NoMatch
    ELSE JsonChars(s, i + 1, Append(acc, s[i]))

\* a string literal at position i
JsonString(s, i) ==
    IF LitAt(s, i, <<QUOTE>>) THEN JsonChars(s, i + 1, <<>>) ELSE NoMatch

\* an integer literal at position i: -?(0|[1-9][0-9]*); fractions and exponents are
\* left out
JsonNumber(s, i) ==
    LET j == IF LitAt(s, i, <<"-">>) THEN i + 1 ELSE i
        n == IF LitAt(s, j, <<"0">>) THEN 1 ELSE DigitRun(s, j)
        v == parseInt(SubSeq(s, j, j + n - 1))
    IN  IF n = 0 THEN NoMatch
        ELSE Match([type |-> "number", value |-> IF j > i THEN 0 - v ELSE v], j + n)

\* members[key] = value: a repeated key keeps its place and takes the new value
SetMember(members, key, value) ==
    IF \E k \in 1..Len(members) : members[k].key = key
    THEN [k \in 1..Len(members) |->
             IF members[k].key = key THEN Member(key, value) ELSE members[k]]
    ELSE Append(members, Member(key, value))

RECURSIVE JsonValue(_, _)
RECURSIVE JsonElements(_, _, _)
RECURSIVE JsonMembers(_, _, _)

\* the elements of an array from position i (an element is due) to the closing ]
JsonElements(s, i, acc) ==
    LET e == JsonValue(s, i)
        j == SkipWhitespace(s, e.next)
    IN  IF ~e.ok THEN NoMatch
        ELSE IF LitAt(s, j, <<",">>) THEN JsonElements(s, j + 1, Append(acc, e.value))
        ELSE IF LitAt(s, j, <<"]">>) THEN Match(Array(Append(acc, e.value)), j + 1)
        ELSE NoMatch

\* the members of an object from position i (a member is due) to the closing }
JsonMembers(s, i, acc) ==
    LET k == JsonString(s, SkipWhitespace(s, i))
        c == SkipWhitespace(s, k.next)
        v == JsonValue(s, c + 1)
        j == SkipWhitespace(s, v.next)
    IN  IF ~k.ok THEN NoMatch
        ELSE IF ~LitAt(s, c, <<":">>) THEN NoMatch
        ELSE IF ~v.ok THEN NoMatch
        ELSE IF LitAt(s, j, <<",">>)
             THEN JsonMembers(s, j + 1, SetMember(acc, k.value, v.value))
        ELSE IF LitAt(s, j, <<"}">>)
             THEN Match(JsonObject(SetMember(acc, k.value, v.value)), j + 1)
        ELSE NoMatch

\* a value at position i, after white space
JsonValue(s, i) ==
    LET j == SkipWhitespace(s, i)
        str == JsonString(s, j)
    IN  IF LitAt(s, j, <<"{">>)
        THEN IF LitAt(s, SkipWhitespace(s, j + 1), <<"}">>)
             THEN Match(JsonObject(<<>>), SkipWhitespace(s, j + 1) + 1)
             ELSE JsonMembers(s, j + 1, <<>>)
        ELSE IF LitAt(s, j, <<"[">>)
        THEN IF LitAt(s, SkipWhitespace(s, j + 1), <<"]">>)
             THEN Match(Array(<<>>), SkipWhitespace(s, j + 1) + 1)
             ELSE JsonElements(s, j + 1, <<>>)
        ELSE IF LitAt(s, j, <<QUOTE>>)
        THEN IF str.ok THEN Match(String(str.value), str.next) ELSE NoMatch
        ELSE IF LitAt(s, j, NULL) THEN Match([type |-> "null"], j + 4)
        ELSE IF LitAt(s, j, TRUE_LIT) THEN Match(Boolean(TRUE), j + 4)
        ELSE IF LitAt(s, j, FALSE_LIT) THEN Match(Boolean(FALSE), j + 5)
        ELSE JsonNumber(s, j)

\* JSON.parse(text): the value decoded, or the SyntaxError thrown
JSONparse(text) ==
    LET v == JsonValue(text, 1)
    IN  IF v.ok /\ SkipWhitespace(text, v.next) = Len(text) + 1
        THEN Return(v.value)
        ELSE Throw("SyntaxError")

-----------------------------------------------------------------------------
(* llm/index.js: getReview, getSummary and parseReviewResponse *)

\* the character U+0060 (grave accent), which a TLA+ string cannot hold, is this one
\* element of a text
BACKTICK == "U+0060"
FENCE == <<BACKTICK, BACKTICK, BACKTICK>>
FENCE_JSON == FENCE \o <<"j", "s", "o", "n">>

\* s.replace(/FENCE_JSON\n?|\n?FENCE/g, '') from position i on: the text up to the
\* leftmost match, and the replacement of what follows the match. At a position the
\* first alternative is tried before the second.
RECURSIVE replaceFences(_, _)
replaceFences(s, i) ==
    LET matches == {k \in i..Len(s) : LitAt(s, k, FENCE) \/ LitAt(s, k, <<NL>> \o FENCE)}
        m == CHOOSE k \in matches : \A j \in matches : k <= j
        after == IF LitAt(s, m, FENCE_JSON)
                 THEN IF LitAt(s, m + 7, <<NL>>) THEN m + 8 ELSE m + 7
                 ELSE IF LitAt(s, m, FENCE) THEN m + 3
                 ELSE m + 4
    IN  IF matches = {} THEN SubSeq(s, i, Len(s))
        ELSE SubSeq(s, i, m - 1) \o replaceFences(s, after)

\* mutant of cleanedContent: the response is decoded as it came
cleanedContent_AsReceived(content) == trim(content)

\* content.replace(/FENCE_JSON\n?|\n?FENCE/g, '').trim()
cleanedContent(content) == trim(replaceFences(content, 1))

\* parseReviewResponse(content): the decoded value, or the Error thrown
parseReviewResponse(content) ==
    LET decoded == JSONparse(cleanedContent(content))
    IN  IF decoded.threw THEN Throw("Invalid JSON response from LLM") ELSE decoded

SYSTEM == <<"s", "y", "s", "t", "e", "m">>
USER == <<"u", "s", "e", "r">>

\* buildReviewPrompt(hunk); the fixed text before and after the hunk is kept as one
\* element each
buildReviewPrompt(hunk) ==
    String(<<"Below data is in JSON format ... in the new file\n">> \o stringify(hunk)
               \o <<"\nReview the code changes and provide review comments. ...">>)

\* buildSummaryPrompt(diffData)
buildSummaryPrompt(diff) ==
    String(<<"Please review the following incremental changes ... Changes:\n">>
               \o diff.value)

\* the messages and the options getReview builds
ReviewMessages(hunk) ==
    Array(<<[role |-> String(SYSTEM),
             content |-> String(<<"You are an AI assistant that reviews code changes. ...">>)],
            [role |-> String(USER), content |-> buildReviewPrompt(hunk)]>>)
ReviewOptions == [model |-> undefined, maxTokens |-> Number(1000), temperature |-> Number(1)]

\* the messages and the options getSummary builds
SummaryMessages(diff) ==
    Array(<<[role |-> String(SYSTEM),
             content |-> String(<<"You are an AI assistant that summarizes incremental code changes in pull requests. ...">>)],
            [role |-> String(USER), content |-> buildSummaryPrompt(diff)]>>)
SummaryOptions == [model |-> undefined, maxTokens |-> Number(1500), temperature |-> Number(1)]

\* makeRequest(endpoint, apiKey, messages, options) up to its await: the Error it
\* rejects with, or the POST it issues
makeRequest(endpoint, apiKey, messages, opts) ==
    LET requestBody == formatRequest(messages, opts)
    IN  IF ConfigError(endpoint, apiKey) # null
        THEN [result |-> Some(Throw(Get(ConfigError(endpoint, apiKey)))), posts |-> <<>>]
        ELSE IF requestBody.threw
        THEN [result |-> Some(Wrapped(Caught(requestBody.message, null))), posts |-> <<>>]
        ELSE [result |-> null,
              posts |-> <<[endpoint |-> endpoint, body |-> requestBody.value,
                           outcome |-> null]>>]

\* makeRequest from the point its POST settled with outcome o
Responded(o) ==
    LET content == parseResponse(o.data)
    IN  IF o.rejects THEN Wrapped(Caught(o.message, o.response))
        ELSE IF content.threw THEN Wrapped(Caught(content.message, null))
        ELSE Return(content.value)

\* getReview from the point makeRequest settled
getReview(content) ==
    IF content.threw THEN content ELSE parseReviewResponse(content.value)

\* mutant of getSummary: the text is cleaned of fences like a review response
getSummary_Cleaned(content) ==
    IF content.threw THEN content ELSE Return(cleanedContent(content.value))

\* getSummary from the point makeRequest settled
getSummary(content) == content

-----------------------------------------------------------------------------
(* SpecCoordinator: one call of getReviewFromLLM or of getSummaryFromLLM *)

COMMENTS == <<"c", "o", "m", "m", "e", "n", "t", "s">>
BODY == <<"b", "o", "d", "y">>
LINE == <<"l", "i", "n", "e">>
FILENAME == <<"f", "i", "l", "e", "n", "a", "m", "e">>
CHANGES == <<"c", "h", "a", "n", "g", "e", "s">>

\* comment bodies: 'ok', 'a\nb', FENCE 'js' (a fence marker), FENCE_JSON '\n1\n' FENCE
\* (a fenced block)
Bodies ==
    {<<"o", "k">>, <<"a", NL, "b">>, FENCE \o <<"j", "s">>,
     FENCE_JSON \o <<NL, "1", NL>> \o FENCE}

PayloadComments == {JsonObject(<<Member(BODY, String(b)), Member(LINE, Number(2))>>) : b \in Bodies}

\* the values a model answers with: a comment list under 'comments', an empty
\* object, null, a number, a string
Answers ==
    {JsonObject(<<Member(COMMENTS, Array(cs))>>) : cs \in SeqsUpTo(PayloadComments, MaxComments)}
        \cup {JsonObject(<<>>), [type |-> "null"], Number(7), String(<<"n", "o">>)}

\* texts that are no JSON text, fenced or not: 'LGTM', '{', 'json'
FreeTexts == {<<"L", "G", "T", "M">>, <<"{">>, <<"j", "s", "o", "n">>}

\* a payload text p as the model may wrap it: not at all, in FENCE_JSON NL and NL FENCE,
\* in FENCE_JSON and FENCE, in FENCE NL and NL FENCE, and the first after a line break
Wrappings(p) ==
    {p,
     FENCE_JSON \o <<NL>> \o p \o <<NL>> \o FENCE,
     FENCE_JSON \o p \o FENCE,
     FENCE \o <<NL>> \o p \o <<NL>> \o FENCE,
     <<NL>> \o FENCE_JSON \o <<NL>> \o p \o <<NL>> \o FENCE}

\* the texts a model answers with before any wrapping
PayloadTexts == {stringify(a) : a \in Answers} \cup FreeTexts

ResponseTexts == UNION {Wrappings(p) : p \in PayloadTexts}

\* how the POST settles: with a response that carries a text, with a response
\* without content, with an HTTP error, with a network error
CoordinatorOutcomes ==
    {[rejects |-> FALSE,
      data |-> Some([choices |-> Some(<<[message |-> Some([content |-> String(t)]),
                                         finish_reason |-> Some("stop")]>>)])] :
        t \in ResponseTexts}
    \cup {[rejects |-> FALSE, data |-> Some([choices |-> Some(<<>>)])],
          [rejects |-> TRUE, message |-> "Request failed with status code 500",
           response |-> Some([status |-> "500", data |-> null])]}
    \cup NetworkErrors

\* process.env: each variable unset or set
Environments ==
    [LLM_ENDPOINT : {undefined, String(<<"e">>)},
     LLM_API_KEY : {undefined, String(<<"k">>)},
     LLM_MODEL : {undefined, String(<<"m">>)}]

\* the hunk given to getReviewFromLLM and the diff text given to getSummaryFromLLM
CoordinatorHunks ==
    {JsonObject(<<Member(FILENAME, String(<<"f">>)), Member(CHANGES, Array(<<>>))>>)}
CoordinatorDiffs == {String(<<>>), String(join(<<DiffF, HeaderA, AddLine>>, NL))}

CoordinatorCalls ==
    {[op |-> "getReview", env |-> e, argument |-> h, posts |-> <<>>, result |-> null] :
        e \in Environments, h \in CoordinatorHunks}
    \cup {[op |-> "getSummary", env |-> e, argument |-> d, posts |-> <<>>, result |-> null] :
             e \in Environments, d \in CoordinatorDiffs}

InitCoordinator ==
    /\ diffData = [type |-> "undefined"]
    /\ options = [generateSummary |-> [type |-> "undefined"]]
    /\ pc = "coordinator"
    /\ hunks = <<>>
    /\ results = NoResults
    /\ hunkIndex = 0
    /\ error = null
    /\ llmLog = <<>>
    /\ parseDiffMock = null
    /\ parseLog = NoCalls
    /\ filterCall = null
    /\ llmCall \in CoordinatorCalls
    /\ other = null

\* getReview from the call to the await of makeRequest's POST (or to its rejection)
GetReviewStart ==
    /\ pc = "coordinator"
    /\ llmCall.op = "getReview"
    /\ LET r == makeRequest(llmCall.env.LLM_ENDPOINT, llmCall.env.LLM_API_KEY,
                            ReviewMessages(llmCall.argument), ReviewOptions)
       IN  /\ llmCall' = [llmCall EXCEPT !.posts = r.posts, !.result = r.result]
           /\ pc' = IF r.result = null THEN "post" ELSE "settled"
    /\ UNCHANGED <<diffData, options, hunks, results, hunkIndex, error, llmLog,
                   parseDiffMock, parseLog, filterCall, other>>

\* getSummary from the call to the await of makeRequest's POST (or to its rejection)
GetSummaryStart ==
    /\ pc = "coordinator"
    /\ llmCall.op = "getSummary"
    /\ LET r == makeRequest(llmCall.env.LLM_ENDPOINT, llmCall.env.LLM_API_KEY,
                            SummaryMessages(llmCall.argument), SummaryOptions)
       IN  /\ llmCall' = [llmCall EXCEPT !.posts = r.posts, !.result = r.result]
           /\ pc' = IF r.result = null THEN "post" ELSE "settled"
    /\ UNCHANGED <<diffData, options, hunks, results, hunkIndex, error, llmLog,
                   parseDiffMock, parseLog, filterCall, other>>

\* the POST of getReview settles: the response is parsed and decoded
GetReviewSettles ==
    /\ pc = "post"
    /\ llmCall.op = "getReview"
    /\ \E o \in CoordinatorOutcomes :
          llmCall' = [llmCall EXCEPT !.posts[1].outcome = Some(o),
                                     !.result = Some(getReview(Responded(o)))]
    /\ pc' = "settled"
    /\ UNCHANGED <<diffData, options, hunks, results, hunkIndex, error, llmLog,
                   parseDiffMock, parseLog, filterCall, other>>

\* the POST of getSummary settles: the response is parsed and returned
GetSummarySettles ==
    /\ pc = "post"
    /\ llmCall.op = "getSummary"
    /\ \E o \in CoordinatorOutcomes :
          llmCall' = [llmCall EXCEPT !.posts[1].outcome = Some(o),
                                     !.result = Some(getSummary(Responded(o)))]
    /\ pc' = "settled"
    /\ UNCHANGED <<diffData, options, hunks, results, hunkIndex, error, llmLog,
                   parseDiffMock, parseLog, filterCall, other>>

NextCoordinator ==
    GetReviewStart \/ GetSummaryStart \/ GetReviewSettles \/ GetSummarySettles

SpecCoordinator == InitCoordinator /\ [][NextCoordinator]_vars

-----------------------------------------------------------------------------
(* Properties of reviewChanges (checked under Spec) *)

RECURSIVE Flatten(_)
Flatten(seqs) == IF seqs = <<>> THEN <<>> ELSE Head(seqs) \o Flatten(Tail(seqs))

RECURSIVE SumOf(_)
SumOf(ns) == IF ns = <<>> THEN 0 ELSE Head(ns) + SumOf(Tail(ns))

IsReview(e) == e.kind = "review"

\* the review requests issued so far, in the order they were issued
ReviewRequests == SelectSeq(llmLog, IsReview)

\* the request's call succeeded: it settled and did not reject
Succeeded(e) == e.settled /\ ~Get(e.outcome).rejects

\* the comment list the provider returned to a request (none while it is outstanding,
\* when it rejected, or when the payload carries no comment list)
Delivered(e) ==
    IF ~Succeeded(e) THEN <<>>
    ELSE LET v == Get(e.outcome).value
         IN  IF v.type = "object" /\ v.comments # null /\ Get(v.comments).type = "array"
             THEN Get(v.comments).items
             ELSE <<>>

\* what identifies a provider comment, and a comment of the result
BodyLine(c) == <<c.body, c.line>>
BodyLines(cs) == [k \in 1..Len(cs) |-> BodyLine(cs[k])]

Occurrences(x, seq) == Cardinality({k \in 1..Len(seq) : seq[k] = x})
SameBag(s, t) ==
    /\ Len(s) = Len(t)
    /\ \A k \in 1..Len(s) : Occurrences(s[k], s) = Occurrences(s[k], t)

AllHunksValid == \A k \in 1..Len(hunks) : ~InvalidHunk(hunks[k])

Parsed == pc # "call" /\ IsNonEmptyString(diffData)

\* C1: per-hunk fault containment. When every hunk the parser returned is valid,
\* the call never rejects, whichever review requests reject; and the result it
\* resolves with holds exactly the comments returned to the requests that succeeded,
\* with metadata.totalComments the sum of their numbers.
C1_FaultContainment ==
    (Parsed /\ AllHunksValid) =>
        /\ pc # "rejected"
        /\ pc = "resolved" =>
            LET delivered == [k \in 1..Len(ReviewRequests) |-> Delivered(ReviewRequests[k])]
            IN  /\ SameBag(BodyLines(results.comments), BodyLines(Flatten(delivered)))
                /\ results.metadata.totalComments =
                       SumOf([k \in 1..Len(delivered) |-> Len(delivered[k])])

\* C1 witness: two hunks, the first request returned one comment, the second rejected
C1_Witness ==
    /\ pc = "resolved"
    /\ Len(hunks) = 2
    /\ Len(ReviewRequests) = 2
    /\ Len(Delivered(ReviewRequests[1])) = 1
    /\ Get(ReviewRequests[2].outcome).rejects
    /\ results.metadata.totalComments = 1

\* C2 (as claimed): once the diff text has been parsed (it is a non-empty string),
\* reviewChanges never rejects.
C2_NeverRejectsOnceParsed == IsNonEmptyString(diffData) => pc # "rejected"

\* the comments hunk i contributes: the provider's comments in the provider's order,
\* each under the hunk's filename and header
Contribution(e) ==
    LET cs == Delivered(e)
    IN  [k \in 1..Len(cs) |->
            <<hunks[e.hunk].filename, hunks[e.hunk].hunkHeader, cs[k].body, cs[k].line>>]

\* C3: comment ordering. The review requests are issued in the parser's hunk order
\* and the comments of the result are the hunks' contributions in that order, each
\* contribution in the provider's order, whichever requests failed.
C3_CommentOrder ==
    Parsed =>
        /\ \A k \in 1..Len(ReviewRequests) : ReviewRequests[k].hunk = k
        /\ pc = "resolved" =>
            [k \in 1..Len(results.comments) |->
                <<results.comments[k].filename, results.comments[k].hunkHeader,
                  results.comments[k].body, results.comments[k].line>>]
            = Flatten([k \in 1..Len(ReviewRequests) |-> Contribution(ReviewRequests[k])])

\* C3 witness: the first hunk's request returned <<bug, nit>>, the second <<nit>>
C3_Witness ==
    /\ pc = "resolved"
    /\ Len(hunks) = 2
    /\ hunks[1] # hunks[2]
    /\ BodyLines(Delivered(ReviewRequests[1])) = << <<"bug", 6>>, <<"nit", 5>> >>
    /\ BodyLines(Delivered(ReviewRequests[2])) = << <<"nit", 5>> >>
    /\ BodyLines(results.comments) = << <<"bug", 6>>, <<"nit", 5>>, <<"nit", 5>> >>


\* the values reviewChanges must refuse: null, undefined, a number, the empty string
InvalidDiffData == NonStrings \cup {String(<<>>)}

\* C14: reviewChanges fails fast. Called with null, undefined, a number or the empty
\* string it rejects with 'Valid diff data is required', not wrapped as 'Review
\* failed: ...', and neither the parser nor any summary or review request is invoked.
C14_FailsFast ==
    (pc # "call" /\ diffData \in InvalidDiffData) =>
        /\ pc = "rejected"
        /\ error = Some("Valid diff data is required")
        /\ parseLog.calls = 0
        /\ llmLog = <<>>
        /\ results = NoResults

\* C14 witness: the call on the number 123 has rejected
C14_Witness ==
    /\ pc = "rejected"
    /\ diffData = [type |-> "number", value |-> 123]
    /\ error # null

\* C15 (checked under SpecMock): a parser failure aborts the whole call. When
\* parseDiff throws, reviewChanges rejects with 'Review failed: ' and the parser's
\* message, returns no result and issues no summary or review request.
C15_ParserFailureAborts ==
    (pc # "call" /\ parseLog.calls > 0 /\ Get(parseLog.first).outcome.threw) =>
        /\ pc = "rejected"
        /\ error = Some("Review failed: " \o Get(parseLog.first).outcome.message)
        /\ llmLog = <<>>
        /\ results = NoResults

\* C15 witness: the parser threw 'Invalid diff format' on a text with hunks in it
C15_Witness ==
    /\ pc = "rejected"
    /\ diffData = String(join(<<DiffF, HeaderA, AddLine>>, NL))
    /\ parseLog.calls = 1
    /\ error = Some("Review failed: Invalid diff format")


IsSummary(e) == e.kind = "summary"

\* the summary requests issued so far
SummaryRequests == SelectSeq(llmLog, IsSummary)

\* a summary request was made and it rejected
SummaryRejected ==
    \E k \in 1..Len(SummaryRequests) :
        SummaryRequests[k].settled /\ Get(SummaryRequests[k].outcome).rejects

\* C16: a summary failure is contained. Once the summary request has rejected, the
\* summary is 'Summary generation failed'; with every hunk valid the call does not
\* reject, and when it resolves a review request was issued for every hunk, in
\* order, and the comments are what those requests returned, as they are when the
\* summary succeeds.
C16_SummaryFailureContained ==
    SummaryRejected =>
        /\ results.summary = Some("Summary generation failed")
        /\ AllHunksValid => pc \in {"review", "resolved"}
        /\ pc = "resolved" =>
              /\ [k \in 1..Len(ReviewRequests) |-> ReviewRequests[k].hunk]
                    = [k \in 1..Len(hunks) |-> k]
              /\ BodyLines(results.comments)
                    = BodyLines(Flatten([k \in 1..Len(ReviewRequests) |->
                                            Delivered(ReviewRequests[k])]))

\* C16 witness: the summary request rejected, both hunks were reviewed and the call
\* resolved with two comments
C16_Witness ==
    /\ pc = "resolved"
    /\ SummaryRejected
    /\ Len(hunks) = 2
    /\ Len(ReviewRequests) = 2
    /\ Len(results.comments) = 2
    /\ results.summary = Some("Summary generation failed")


\* options.generateSummary is the boolean false
SummaryOff == options.generateSummary = [type |-> "boolean", value |-> FALSE]

\* C17: the summary switch. A call that got past its input validation makes exactly
\* one summary request, unless options.generateSummary is the boolean false; then it
\* makes none and the summary stays null. Either way a call that resolves has
\* issued one review request per hunk.
C17_SummaryOnce ==
    Parsed =>
        /\ Len(SummaryRequests) = IF SummaryOff THEN 0 ELSE 1
        /\ SummaryOff => results.summary = null
        /\ (~SummaryOff /\ pc = "resolved") => results.summary # null
        /\ pc = "resolved" =>
              [k \in 1..Len(ReviewRequests) |-> ReviewRequests[k].hunk]
                  = [k \in 1..Len(hunks) |-> k]

\* C17 witness: with generateSummary false the call resolved, two hunks reviewed,
\* without a summary request
C17_Witness ==
    /\ pc = "resolved"
    /\ SummaryOff
    /\ Len(hunks) = 2
    /\ Len(llmLog) = 2
    /\ results.summary = null
    /\ Len(results.comments) > 0


\* C21: the resolved result is consistent. Its hunks are the list the parser
\* returned, metadata.totalHunks is that list's length, metadata.totalComments is
\* the length of comments, and each hunk had exactly one review request; for an
\* empty hunk list there is no review request and no comment.
C21_ResultConsistent ==
    pc = "resolved" =>
        /\ results.hunks = Get(parseLog.first).outcome.value
        /\ results.metadata.totalHunks = Len(results.hunks)
        /\ results.metadata.totalComments = Len(results.comments)
        /\ \A i \in 1..Len(results.hunks) :
              Cardinality({k \in 1..Len(ReviewRequests) : ReviewRequests[k].hunk = i}) = 1
        /\ Len(ReviewRequests) = Len(results.hunks)
        /\ results.hunks = <<>> => (ReviewRequests = <<>> /\ results.comments = <<>>)

\* C21 witness: a result with two hunks and three comments
C21_Witness ==
    /\ pc = "resolved"
    /\ results.metadata.totalHunks = 2
    /\ results.metadata.totalComments = 3
    /\ Len(results.hunks) = 2
    /\ Len(results.comments) = 3

\* C22: requests are strictly sequential. At any time every request but the last
\* one issued has settled, so at most one is outstanding; a summary request is the
\* first request, and the review requests are for hunks 1, 2, ... in that order.
C22_Sequential ==
    /\ \A k \in 1..(Len(llmLog) - 1) : llmLog[k].settled
    /\ \A k \in 1..Len(llmLog) : IsSummary(llmLog[k]) => k = 1
    /\ \A k \in 1..Len(ReviewRequests) : ReviewRequests[k].hunk = k

\* C22 witness: the summary and the first hunk's request have settled, the second
\* hunk's request is outstanding
C22_Witness ==
    /\ pc = "review"
    /\ Len(llmLog) = 3
    /\ IsSummary(llmLog[1])
    /\ llmLog[1].settled /\ llmLog[2].settled /\ ~llmLog[3].settled
    /\ llmLog[3].hunk = 2


-----------------------------------------------------------------------------
(* Properties of parseDiff (checked under SpecParse) *)

\* the text s begins with the literal p
Begins(s, p) == Len(s) >= Len(p) /\ \A i \in 1..Len(p) : s[i] = p[i]

MarkerLine(l) == Begins(l, <<"d", "i", "f", "f", " ", "-", "-", "g", "i", "t">>)
HeaderLine(l) == Begins(l, <<"@", "@">>)
MetaLine(l) ==
    \/ Begins(l, <<"i", "n", "d", "e", "x">>)
    \/ Begins(l, <<"-", "-", "-">>)
    \/ Begins(l, <<"+", "+", "+">>)
\* a line that is neither a marker, a header nor metadata
ContentLine(l) == ~MarkerLine(l) /\ ~HeaderLine(l) /\ ~MetaLine(l)

Returned == pc = "returned"

\* the lines of the input text
InputLines == split(diffData.value, NL)

\* the positions of the content lines of ls, in order
ContentPositionsOf(ls) ==
    LET IsContent(i) == ContentLine(ls[i])
    IN  SelectSeq([i \in 1..Len(ls) |-> i], IsContent)

Max(S) == CHOOSE x \in S : \A y \in S : y <= x

\* the last 'diff --git' or '@@' line of ls before position p (0 when there is none)
BoundaryBefore(ls, p) ==
    Max({0} \cup {b \in 1..(p - 1) : MarkerLine(ls[b]) \/ HeaderLine(ls[b])})

\* the last 'diff --git' line of ls before position p (0 when there is none)
MarkerBefore(ls, p) == Max({0} \cup {b \in 1..(p - 1) : MarkerLine(ls[b])})

\* the start values (O, N) each header line of the inputs states
StartsOf(line) ==
    CASE line = HeaderA -> Some([oldStart |-> 5, newStart |-> 5])
      [] line = HeaderB -> Some([oldStart |-> 12, newStart |-> 100])
      [] OTHER -> null

\* the start values of the header in force at position p of ls: those of the '@@'
\* line that is the last boundary before p, null when that boundary is a
\* 'diff --git' line, an unparseable header, or missing
HeaderInForce(ls, p) ==
    LET b == BoundaryBefore(ls, p)
    IN  IF b > 0 /\ HeaderLine(ls[b]) THEN StartsOf(ls[b]) ELSE null

\* where the returned hunks lie in the input: its lines, the positions of its
\* content lines and, for each hunk, the position of the line that became its first
\* change (the hunks hold the content lines in input order, C5), the header in
\* force there and the last 'diff --git' line before it
Layout ==
    LET ls  == split(diffData.value, NL)
        cps == ContentPositionsOf(ls)
        first == [k \in 1..Len(hunks) |->
                    cps[SumOf([j \in 1..(k - 1) |-> Len(hunks[j].changes)]) + 1]]
    IN  [lines |-> ls,
         positions |-> cps,
         headerOf |-> [k \in 1..Len(hunks) |-> HeaderInForce(ls, first[k])],
         markerOf |-> [k \in 1..Len(hunks) |-> MarkerBefore(ls, first[k])]]

\* the number of changes before change i of a hunk whose type is in types
CountBefore(changes, i, types) ==
    Cardinality({j \in 1..(i - 1) : changes[j].type \in types})

\* C4: line-number reconstruction. In a hunk whose header parsed to (O, N), an
\* addition or context change has lineNumber N + the number of addition and
\* context changes before it, and a deletion has lineNumber O + the number of
\* deletion and context changes before it.
C4_LineNumbers ==
    Returned =>
        LET L == Layout
        IN  \A k \in 1..Len(hunks) :
            L.headerOf[k] # null =>
                LET cs == hunks[k].changes
                    O == Get(L.headerOf[k]).oldStart
                    N == Get(L.headerOf[k]).newStart
                IN  \A i \in 1..Len(cs) :
                        cs[i].lineNumber =
                            IF cs[i].type = "deletion"
                            THEN Some(O + CountBefore(cs, i, {"deletion", "context"}))
                            ELSE Some(N + CountBefore(cs, i, {"addition", "context"}))

\* C4 witness: after header -5 +5, two additions and a context line get 5, 6, 7,
\* and in another hunk a deletion after a context line gets O + 1
C4_Witness ==
    /\ Returned
    /\ \E k \in 1..Len(hunks) :
          /\ Layout.headerOf[k] = Some([oldStart |-> 5, newStart |-> 5])
          /\ [i \in 1..Len(hunks[k].changes) |->
                <<hunks[k].changes[i].type, hunks[k].changes[i].lineNumber>>]
             = << <<"addition", <<5>> >>, <<"addition", <<6>> >>, <<"context", <<7>> >> >>

\* C5: order preservation. The contents of all changes, read hunk by hunk, are the
\* input lines that are neither markers, headers nor metadata, in input order.
C5_OrderPreserved ==
    Returned =>
        Flatten([k \in 1..Len(hunks) |->
                    [i \in 1..Len(hunks[k].changes) |-> hunks[k].changes[i].content]])
        = LET L == Layout
          IN  [j \in 1..Len(L.positions) |-> L.lines[L.positions[j]]]

\* C5 witness: two files, the changes of the first in the first hunk
C5_Witness ==
    /\ Returned
    /\ Len(hunks) = 2
    /\ hunks[1].filename = <<"f">> /\ hunks[2].filename = <<"d", "/", "g">>
    /\ Len(hunks[1].changes) = 2
    /\ Len(InputLines) = 5

Advanced(header, changes) ==
    [oldStart |-> header.oldStart
                    + CountBefore(changes, Len(changes) + 1, {"deletion", "context"}),
     newStart |-> header.newStart
                    + CountBefore(changes, Len(changes) + 1, {"addition", "context"})]

LoopEnd == ParseLines(ParseStart, InputLines)

C8_HeaderIffLineNumbers ==
    Returned =>
        /\ \A k \in 1..Len(hunks) :
              LET cs == hunks[k].changes
              IN  /\ hunks[k].hunkHeader = null
                        <=> \A i \in 1..Len(cs) : cs[i].lineNumber = null
                  /\ hunks[k].hunkHeader # null
                        <=> \A i \in 1..Len(cs) : cs[i].lineNumber # null
        /\ diffData.value = join(<<DiffF, BinaryLine>>, NL) =>
              hunks = << [changes |-> << [content |-> BinaryLine, type |-> "context",
                                          lineNumber |-> null] >>,
                          filename |-> <<"f">>,
                          hunkHeader |-> null] >>

\* C8 witness: the binary block, parsed
C8_Witness ==
    /\ Returned
    /\ InputLines = <<DiffF, BinaryLine>>
    /\ Len(hunks) = 1
    /\ hunks[1].changes[1].lineNumber = null

\* C9: a text made only of 'diff --git', 'index', '---' and '+++' lines parses to
\* the empty list.
C9_MetadataOnly ==
    Returned =>
        LET ls == InputLines
        IN  (\A i \in 1..Len(ls) : MarkerLine(ls[i]) \/ MetaLine(ls[i])) => hunks = <<>>

\* C9 witness: 'diff --git a/f b/f', 'index 1..2', '--- a/f', '+++ b/f'
C9_Witness ==
    /\ Returned
    /\ InputLines = <<DiffF, IndexLine, OldFileLine, NewFileLine>>
    /\ hunks = <<>>

\* p is the first content line of ls after a boundary line or after the start
StartsRun(ls, p) ==
    ContentLine(ls[p]) /\
        \A q \in (BoundaryBefore(ls, p) + 1)..(p - 1) : ~ContentLine(ls[q])

\* C10: counters are per hunk. There is one hunk per boundary line followed by
\* change lines, the hunks between two 'diff --git' lines have the same filename,
\* and the first change of a hunk with a parsed header has the header's own start
\* value (O for a deletion, N otherwise) as its lineNumber.
C10_CountersPerHunk ==
    Returned =>
        LET L == Layout
        IN  /\ Len(hunks) = Cardinality({p \in 1..Len(L.lines) : StartsRun(L.lines, p)})
            /\ \A k \in 1..Len(hunks) :
                  /\ L.headerOf[k] # null =>
                        hunks[k].changes[1].lineNumber =
                            IF hunks[k].changes[1].type = "deletion"
                            THEN Some(Get(L.headerOf[k]).oldStart)
                            ELSE Some(Get(L.headerOf[k]).newStart)
                  /\ \A j \in 1..(k - 1) :
                        L.markerOf[j] = L.markerOf[k]
                            => hunks[j].filename = hunks[k].filename

\* C10 witness: file f with header -5 +5 and an addition, then header -12 +100 and
\* an addition, which gets 100 and not 6
C10_Witness ==
    /\ Returned
    /\ InputLines = <<DiffF, HeaderA, AddLine, HeaderB, AddLine>>
    /\ Len(hunks) = 2
    /\ hunks[1].filename = <<"f">> /\ hunks[2].filename = <<"f">>
    /\ hunks[1].changes[1].lineNumber = <<5>>
    /\ hunks[2].changes[1].lineNumber = <<100>>

\* the first path token each 'diff --git' line of the inputs names after 'a/'
PathOf(line) ==
    CASE line = DiffF -> <<"f">>
      [] line = DiffG -> <<"d", "/", "g">>
      [] line = DiffSpace -> <<"m">>

\* C11: filename attribution. A hunk whose changes follow a 'diff --git' line has
\* as filename the first path token of the last such line before them, without the
\* 'a/' prefix and with its directories kept; so all hunks between two 'diff --git'
\* lines have the same filename.
C11_Filename ==
    Returned =>
        LET L == Layout
        IN  /\ \A k \in 1..Len(hunks) :
                  L.markerOf[k] > 0 => hunks[k].filename = PathOf(L.lines[L.markerOf[k]])
            /\ \A j, k \in 1..Len(hunks) :
                  (L.markerOf[j] = L.markerOf[k] /\ L.markerOf[k] > 0)
                      => hunks[j].filename = hunks[k].filename

\* C11 witness: 'diff --git a/f b/f', then 'diff --git a/d/g b/d/g' and two hunks
\* split by a header: both are hunks of d/g
C11_Witness ==
    /\ Returned
    /\ InputLines[1] = DiffF
    /\ Len(hunks) = 2
    /\ [k \in 1..2 |-> hunks[k].filename] = << <<"d", "/", "g">>, <<"d", "/", "g">> >>
    /\ hunks[1].hunkHeader = null
    /\ hunks[2].hunkHeader # null

\* the values the parser must refuse: null, undefined, a number, the empty string
InvalidInputs == NonStrings \cup {String(<<>>)}

\* C13: input validation of parseDiff. Called with null, undefined, a number or the
\* empty string, parseDiff throws 'Invalid diff input: expected non-empty string'
\* and returns no hunk list.
C13_RejectsInvalid ==
    (pc # "parse" /\ diffData \in InvalidInputs) =>
        /\ pc = "threw"
        /\ error = Some("Invalid diff input: expected non-empty string")
        /\ hunks = <<>>

\* C13 witness: the call on the empty string has thrown
C13_Witness ==
    /\ pc = "threw"
    /\ diffData = String(<<>>)
    /\ error # null


-----------------------------------------------------------------------------
(* Properties of repeated parseDiff calls (checked under SpecCalls) *)

\* how the call that just ended ended
Outcome == IF pc = "returned" THEN Return(hunks) ELSE Throw(Get(error))

-----------------------------------------------------------------------------
(* Properties of reviewHunk (checked under SpecHunk) *)

\* the hunk reviewHunk was called with
Hunk == hunks[1]

\* C18: reviewHunk validates its hunk. Called with null, with an object that has no
\* filename (or an empty one) or has no changes field, it rejects with 'Invalid
\* hunk data' and issues no LLM request.
C18_InvalidHunkRejected ==
    (pc # "hunkCall" /\ Hunk \in InvalidHunks) =>
        /\ pc = "hunkRejected"
        /\ error = Some("Invalid hunk data")
        /\ llmLog = <<>>

\* C18 witness: the call on a hunk with a filename but no changes field has rejected
C18_Witness ==
    /\ pc = "hunkRejected"
    /\ Hunk = [filename |-> <<"f">>]
    /\ error # null

\* a payload that carries no comment list
NoCommentList(v) ==
    \/ v.type # "object"
    \/ v.comments = null
    \/ Get(v.comments).type # "array"

\* C19: a payload without a comment list gives no comments. When the review request
\* resolved with a value whose comments field is missing, null or not a list, or
\* with null or a value that is no object, reviewHunk resolves with [].
C19_NoListNoComments ==
    (/\ pc \in {"hunkResolved", "hunkRejected"}
     /\ llmLog # <<>>
     /\ ~Get(llmLog[1].outcome).rejects
     /\ NoCommentList(Get(llmLog[1].outcome).value))
        => (pc = "hunkResolved" /\ results.comments = <<>>)

\* C19 witness: the payload decoded to null and reviewHunk resolved
C19_Witness ==
    /\ pc = "hunkResolved"
    /\ Get(llmLog[1].outcome) = Resolved([type |-> "null"])
    /\ results.comments = <<>>


-----------------------------------------------------------------------------
(* Properties of the comments of reviewHunk and reviewChanges                *)
(* (checked under SpecComments)                                              *)

\* C20: comment attribution. Every comment reviewHunk resolved with or reviewChanges
\* collected comes from a comment returned to a review request: it has the filename
\* and hunkHeader of that request's hunk, whatever filename or hunkHeader the
\* provider's comment carried, and the provider's body and line.
C20_CommentAttribution ==
    \A n \in 1..Len(results.comments) :
        \E j \in 1..Len(ReviewRequests) :
            LET e == ReviewRequests[j]
            IN  \E k \in 1..Len(Delivered(e)) :
                    /\ results.comments[n].filename = hunks[e.hunk].filename
                    /\ results.comments[n].hunkHeader = hunks[e.hunk].hunkHeader
                    /\ results.comments[n].body = Delivered(e)[k].body
                    /\ results.comments[n].line = Delivered(e)[k].line
                    /\ DOMAIN results.comments[n]
                          = DOMAIN Delivered(e)[k] \cup {"filename", "hunkHeader"}

\* the provider's comment that carries a filename of its own
OwnFilename(c) == "filename" \in DOMAIN c

\* C20 witness: reviewHunk resolved with a comment of a hunk of d/g whose provider
\* comment named the file o
C20_Witness ==
    /\ pc = "hunkResolved"
    /\ Hunk.filename = <<"d", "/", "g">>
    /\ Hunk.hunkHeader # null
    /\ Len(results.comments) = 1
    /\ OwnFilename(Delivered(llmLog[1])[1])
    /\ Delivered(llmLog[1])[1].filename = <<"o">>
    /\ Delivered(llmLog[1])[1].hunkHeader # Hunk.hunkHeader
    /\ results.comments[1].filename = <<"d", "/", "g">>


-----------------------------------------------------------------------------
(* Properties of filterComments (checked under SpecFilter) *)

\* p occurs in s
Occurs(p, s) == \E i \in 1..(Len(s) + 1) : \E j \in (i - 1)..Len(s) : SubSeq(s, i, j) = p

Supplied(v) == v.type # "undefined"

\* the patterns an option names: the pattern itself, or those of the list
Named(v) == IF v.type = "array" THEN {v.items[n] : n \in 1..Len(v.items)} ELSE {v.value}

\* C23 (as claimed): the result holds, in input order, exactly the comments that
\* pass every supplied filter: body at least minLength long, no exclude pattern in
\* the filename, some include pattern in the filename.
C23_Conjunction ==
    pc = "filtered" =>
        LET f == filterCall.filters
            Passes(c) ==
                /\ Supplied(f.minLength) => Len(c.body) >= f.minLength.value
                /\ Supplied(f.excludeFiles) =>
                      ~\E q \in Named(f.excludeFiles) : Occurs(q, c.filename)
                /\ Supplied(f.includeFiles) =>
                      \E q \in Named(f.includeFiles) : Occurs(q, c.filename)
        IN  Get(filterCall.returned).items = SelectSeq(filterCall.comments, Passes)

\* C24: filterComments leaves its input alone. After the call the comments array
\* holds what it held before, in the same order, and the array returned is another
\* object.
C24_InputUntouched ==
    pc = "filtered" =>
        /\ filterCall.after = Some(filterCall.comments)
        /\ Get(filterCall.returned).ref # 1

\* C24 witness: a call with a minLength that drops one of two comments
C24_Witness ==
    /\ pc = "filtered"
    /\ Len(filterCall.comments) = 2
    /\ Len(Get(filterCall.returned).items) = 1
    /\ Get(filterCall.after) = filterCall.comments
    /\ filterCall.filters.minLength = [type |-> "number", value |-> 2]


-----------------------------------------------------------------------------
(* Properties of the OpenAI provider (checked under SpecProvider) *)

Formatted == pc = "provided" /\ llmCall.op = "formatRequest"
ParsedResponse == pc = "provided" /\ llmCall.op = "parseResponse"

\* a role or content that is missing or empty
Blank(v) == v = undefined \/ v = String(<<>>)

\* C25: formatRequest validates its messages. It throws, giving no body, when
\* messages is no list, is empty or holds a message whose role or content is
\* missing or empty; otherwise the body's messages are the input list as it is.
C25_MessagesValidated ==
    Formatted =>
        LET m == llmCall.messages
            r == Get(llmCall.result)
            bad == IF m.type # "array" THEN TRUE
                   ELSE \/ m.items = <<>>
                        \/ \E k \in 1..Len(m.items) :
                              Blank(m.items[k].role) \/ Blank(m.items[k].content)
        IN  IF bad THEN r.threw ELSE ~r.threw /\ r.value.messages = m

\* C25 witness: a body was produced for two different messages
C25_Witness ==
    /\ Formatted
    /\ ~Get(llmCall.result).threw
    /\ Len(llmCall.messages.items) = 2
    /\ llmCall.messages.items[1] # llmCall.messages.items[2]
    /\ Get(llmCall.result).value.messages.items = llmCall.messages.items

\* C26 (as claimed): every option that is supplied is the value the body carries,
\* zero included; a default is used only for an option that is absent.
C26_OverridesHonoured ==
    (Formatted /\ ~Get(llmCall.result).threw) =>
        LET o == llmCall.options
            body == Get(llmCall.result).value
        IN  /\ body.model = IF o.model = undefined THEN String(DefaultModel) ELSE o.model
            /\ body.max_tokens =
                  IF o.maxTokens = undefined THEN Number(1000) ELSE o.maxTokens
            /\ body.temperature =
                  IF o.temperature = undefined THEN Number(1) ELSE o.temperature

\* the content of the first choice's message when it is a string, else null
TextOf(responseData) ==
    LET c == ContentOf(responseData)
    IN  IF c.type = "string" THEN Some(c.value) ELSE null

\* only spaces, tabs and newlines, or nothing at all
BlankText(t) == \A k \in 1..Len(t) : t[k] \in {" ", "\t", "\n"}

\* C27 (as claimed): parseResponse fails with 'Invalid OpenAI response format'
\* exactly when there is no content at choices[0].message.content, with 'Empty
\* response from OpenAI' when the content is there but empty or only whitespace,
\* and otherwise returns the content as it is.
C27_FailureByCause ==
    ParsedResponse =>
        LET t == TextOf(llmCall.responseData)
            r == Get(llmCall.result)
        IN  IF t = null THEN r.threw /\ r.message = "Invalid OpenAI response format"
            ELSE IF BlankText(Get(t)) THEN r.threw /\ r.message = "Empty response from OpenAI"
            ELSE ~r.threw /\ r.value = Get(t)

\* the first choice of a response that has one
FirstChoice(responseData) == Get(Get(responseData).choices)[1]

\* the response cut off by the token cap, with content that is not blank
TruncatedResponse(responseData) ==
    /\ TextOf(responseData) # null
    /\ ~BlankText(Get(TextOf(responseData)))
    /\ FirstChoice(responseData).finish_reason = Some("length")

\* the same response with finish_reason 'stop'
Untruncated(responseData) ==
    Some([choices |-> Some(<<[FirstChoice(responseData) EXCEPT !.finish_reason = Some("stop")]>>)])

\* C28: truncation is not an error. For a response whose first choice has
\* finish_reason 'length' and content that is not blank, parseResponse returns the
\* content unchanged, as it does for the same response without the marker, and
\* writes a warning.
C28_TruncationNonFatal ==
    (ParsedResponse /\ TruncatedResponse(llmCall.responseData)) =>
        LET r == Get(llmCall.result)
            u == parseResponse(Untruncated(llmCall.responseData))
        IN  /\ ~r.threw
            /\ r.value = Get(TextOf(llmCall.responseData))
            /\ ~u.threw /\ u.value = r.value
            /\ Len(r.warnings) = 1 /\ u.warnings = <<>>

\* C28 witness: the truncated content ' ok\n' was returned with its whitespace
C28_Witness ==
    /\ ParsedResponse
    /\ TruncatedResponse(llmCall.responseData)
    /\ ~Get(llmCall.result).threw
    /\ Get(llmCall.result).value = <<" ", "o", "k", "\n">>
    /\ Get(llmCall.result).warnings # <<>>


-----------------------------------------------------------------------------
(* Properties of makeRequest (checked under SpecRequest) *)

\* an endpoint or key that is missing
Missing(v) == v = undefined \/ v = String(<<>>)

\* C29: configuration errors. With the endpoint missing makeRequest rejects with
\* 'LLM_ENDPOINT is required', with only the API key missing with 'LLM_API_KEY is
\* required'; no request is formatted and nothing is posted.
C29_ConfigurationError ==
    (pc # "request" /\ (Missing(llmCall.endpoint) \/ Missing(llmCall.apiKey))) =>
        /\ pc = "requested"
        /\ llmCall.result =
              Some(Throw(IF Missing(llmCall.endpoint) THEN "LLM_ENDPOINT is required"
                         ELSE "LLM_API_KEY is required"))
        /\ llmCall.formatted = 0
        /\ llmCall.posts = <<>>

\* C29 witness: both are missing and the call rejected naming the endpoint
C29_Witness ==
    /\ pc = "requested"
    /\ llmCall.endpoint = String(<<>>)
    /\ llmCall.apiKey = undefined
    /\ llmCall.result = Some(Throw("LLM_ENDPOINT is required"))

\* the upstream message of an HTTP error's response, "" when it has none
UpstreamOf(response) ==
    IF response.data = null THEN ""
    ELSE IF Get(response.data).error = null THEN ""
    ELSE IF Get(Get(response.data).error).message = null THEN ""
    ELSE Get(Get(Get(response.data).error).message)

\* C30: no error is swallowed. When formatting throws, when the POST rejects or when
\* parsing the response throws, makeRequest rejects: with 'LLM API Error (openai):
\* <status> - <message>' for an error that carries the upstream response (the
\* upstream message when there is one, else the error's own), and with 'LLM Request
\* Failed (openai): <message>' otherwise. It resolves only with the parsed content.
C30_ErrorsPropagate ==
    (pc = "requested" /\ llmCall.formatted > 0) =>
        LET f == formatRequest(llmCall.messages, llmCall.options)
            r == Get(llmCall.result)
        IN  IF f.threw
            THEN r.threw /\ r.message = "LLM Request Failed (openai): " \o f.message
            ELSE LET o == Get(llmCall.posts[1].outcome)
                 IN  IF o.rejects /\ o.response # null
                     THEN /\ r.threw
                          /\ r.message =
                                "LLM API Error (openai): " \o Get(o.response).status \o " - "
                                \o (IF UpstreamOf(Get(o.response)) = "" THEN o.message
                                    ELSE UpstreamOf(Get(o.response)))
                     ELSE IF o.rejects
                     THEN r.threw /\ r.message = "LLM Request Failed (openai): " \o o.message
                     ELSE LET p == parseResponse(o.data)
                          IN  IF p.threw
                              THEN /\ r.threw
                                   /\ r.message = "LLM Request Failed (openai): " \o p.message
                              ELSE r = Return(p.value)

\* C30 witness: the POST failed with status 429 and an upstream message
C30_Witness ==
    /\ pc = "requested"
    /\ Len(llmCall.posts) = 1
    /\ llmCall.result =
          Some(Throw("LLM API Error (openai): 429 - Rate limit reached"))

-----------------------------------------------------------------------------
(* Properties of getReview and getSummary (checked under SpecCoordinator) *)

\* the call has ended
Settled == pc = "settled"

\* the text the provider answered the call's request with, null when the request
\* was not issued, failed or was answered without a text
Answered ==
    IF ~Settled THEN null
    ELSE IF llmCall.posts = <<>> THEN null
    ELSE IF Get(llmCall.posts[1].outcome).rejects THEN null
    ELSE TextOf(Get(llmCall.posts[1].outcome).data)

\* p between a leading FENCE_JSON and a trailing FENCE, each on a line of its own
\* or not
Fenced(p) == {FENCE_JSON \o a \o p \o b \o FENCE : a \in {<<>>, <<NL>>}, b \in {<<>>, <<NL>>}}

\* C31: getReview decodes fenced and unfenced payloads alike. When the response is a
\* payload P that decodes, wrapped in a leading FENCE_JSON and a trailing FENCE, the
\* call ends as it ends on the response P alone; when the response does not decode
\* after the fences are stripped, the call rejects with 'Invalid JSON response from
\* LLM'.
C31_FencedAlike ==
    (Settled /\ llmCall.op = "getReview" /\ Answered # null) =>
        LET c == Get(Answered)
            r == Get(llmCall.result)
        IN  /\ \A p \in PayloadTexts :
                  (c \in Fenced(p) /\ ~JSONparse(p).threw) =>
                      (~r.threw /\ r = parseReviewResponse(p))
            /\ (~BlankText(c) /\ JSONparse(cleanedContent(c)).threw) =>
                  r = Throw("Invalid JSON response from LLM")

\* C31 witness: a comment list in a FENCE_JSON block was decoded to that list
C31_Witness ==
    /\ Settled
    /\ llmCall.op = "getReview"
    /\ Answered # null
    /\ \E a \in Answers :
          /\ a.type = "object"
          /\ a.members # <<>>
          /\ Len(a.members[1].value.items) = 2
          /\ Get(Answered) = FENCE_JSON \o <<NL>> \o stringify(a) \o <<NL>> \o FENCE
          /\ llmCall.result = Some(Return(a))

\* C32: request parameters per operation. A request of getReview carries max_tokens
\* 1000 and a request of getSummary max_tokens 1500, both temperature 0.1 and the
\* default model; getSummary resolves with the provider's text as it came, fenced or
\* structured or not.
C32_RequestParameters ==
    (pc \in {"post", "settled"}) =>
        /\ \A k \in 1..Len(llmCall.posts) :
              /\ llmCall.posts[k].body.max_tokens =
                    Number(IF llmCall.op = "getReview" THEN 1000 ELSE 1500)
              /\ llmCall.posts[k].body.temperature = Number(1)
              /\ llmCall.posts[k].body.model = String(DefaultModel)
        /\ (llmCall.op = "getSummary" /\ Answered # null) =>
              IF BlankText(Get(Answered)) THEN Get(llmCall.result).threw
              ELSE llmCall.result = Some(Return(Get(Answered)))

\* C32 witness: getSummary resolved with a fenced comment list, text as it came
C32_Witness ==
    /\ Settled
    /\ llmCall.op = "getSummary"
    /\ Len(llmCall.posts) = 1
    /\ llmCall.posts[1].body.max_tokens = Number(1500)
    /\ Answered # null
    /\ \E p \in PayloadTexts :
          /\ ~JSONparse(p).threw
          /\ Get(Answered) = FENCE_JSON \o <<NL>> \o p \o <<NL>> \o FENCE
          /\ llmCall.result = Some(Return(Get(Answered)))

\* C33 (as claimed): the model override. Every request carries the value of
\* LLM_MODEL when it is set and the default model when it is not.
C33_ModelOverride ==
    (pc \in {"post", "settled"}) =>
        \A k \in 1..Len(llmCall.posts) :
            llmCall.posts[k].body.model =
                IF llmCall.env.LLM_MODEL = undefined THEN String(DefaultModel)
                ELSE llmCall.env.LLM_MODEL

\* C38 (as claimed): fence stripping touches only the wrapping. When the response is
\* a decodable payload between a leading and a trailing fence, the call resolves
\* with exactly the value the payload decodes to, fence markers inside it included.
C38_OnlyWrapping ==
    (Settled /\ llmCall.op = "getReview" /\ Answered # null) =>
        \A p \in PayloadTexts :
            (Get(Answered) \in Fenced(p) /\ ~JSONparse(p).threw) =>
                llmCall.result = Some(Return(JSONparse(p).value))

-----------------------------------------------------------------------------
(* Properties of interleaved reviewChanges calls (checked under SpecShared) *)

\* the calls in flight
Calls == IF other = null THEN <<CallState>> ELSE <<CallState, Get(other).call>>

\* the comments a request for the hunk h contributes
ContributionTo(e, h) ==
    LET cs == Delivered(e)
    IN  [k \in 1..Len(cs) |-> <<h.filename, h.hunkHeader, cs[k].body, cs[k].line>>]

\* the call c stands as a call on its own diff that met the LLM outcomes of its own
\* history stands when it runs alone
AsAlone(c) ==
    LET valid == IsNonEmptyString(c.diffData)
        own == IF valid THEN parseDiff(c.diffData).value ELSE <<>>
        reviews == SelectSeq(c.llmLog, IsReview)
        summaries == SelectSeq(c.llmLog, IsSummary)
        wanted == ~(c.options.generateSummary = [type |-> "boolean", value |-> FALSE])
        bad == {k \in 1..Len(own) : InvalidHunk(own[k])}
    IN  /\ c.pc # "call" /\ valid => c.hunks = own
        /\ Len(summaries) <= (IF wanted THEN 1 ELSE 0)
        /\ \A k \in 1..Len(reviews) :
              /\ reviews[k].hunk = k
              /\ k <= Len(own)
              /\ \A b \in bad : k < b
        /\ c.pc = "rejected" =>
              IF ~valid THEN c.error = Some("Valid diff data is required")
              ELSE /\ bad # {}
                   /\ c.error = Some("Review failed: Invalid hunk data")
        /\ c.pc = "resolved" =>
              /\ valid /\ bad = {}
              /\ c.results.hunks = own
              /\ c.results.metadata.totalHunks = Len(own)
              /\ Len(reviews) = Len(own)
              /\ [k \in 1..Len(c.results.comments) |->
                     <<c.results.comments[k].filename, c.results.comments[k].hunkHeader,
                       c.results.comments[k].body, c.results.comments[k].line>>]
                 = Flatten([k \in 1..Len(reviews) |-> ContributionTo(reviews[k], own[k])])
              /\ c.results.metadata.totalComments = Len(c.results.comments)
              /\ c.results.summary =
                    IF ~wanted THEN null
                    ELSE IF Get(summaries[1].outcome).rejects
                    THEN Some("Summary generation failed")
                    ELSE Some(Get(summaries[1].outcome).value)

\* C34: no state is shared between reviewChanges calls. However two calls on one
\* CodeReviewer interleave at their awaits, each stands, and ends, as it does alone
\* with the same LLM outcomes: its hunks, comments, summary and counts come from its
\* own diff and its own requests, and it rejects only for its own input.
C34_CallsIsolated == \A k \in 1..Len(Calls) : AsAlone(Calls[k])

\* C34 witness: the two calls were suspended at the same time; the one resolved with
\* a comment for each of its two hunks and no summary, the other rejected for its
\* own invalid hunk after its summary request
C34_Witness ==
    /\ other # null
    /\ Get(other).interleaved
    /\ pc = "resolved"
    /\ Len(results.hunks) = 2
    /\ Len(results.comments) = 2
    /\ results.comments[1].filename # results.comments[2].filename
    /\ results.summary = null
    /\ Get(other).call.pc = "rejected"
    /\ Get(other).call.error = Some("Review failed: Invalid hunk data")
    /\ Len(Get(other).call.llmLog) = 1

-----------------------------------------------------------------------------
(* Further properties of parseDiff (checked under SpecParse) *)

\* C35 (as claimed): a final line terminator adds nothing. For a text t that does
\* not end in a line break, the call on t followed by one line break returns the
\* hunks and changes the call on t returns.
C35_FinalNewlineAddsNothing ==
    LET t == diffData.value
    IN  (Returned /\ Len(t) >= 2 /\ t[Len(t)] = NL /\ t[Len(t) - 1] # NL) =>
            hunks = parseDiff(String(SubSeq(t, 1, Len(t) - 1))).value

\* the number of lines of ls at the positions ps that are not empty and begin with
\* none of the characters cs
CountNot(ls, ps, cs) == Cardinality({q \in ps : ls[q] = <<>> \/ ls[q][1] \notin cs})

\* C36 (as claimed): lineNumber is the actual file line. After a header that parsed
\* to (O, N), every body line that begins with '+' is an addition whose lineNumber
\* is N plus the number of body lines before it that begin with '+' or are context,
\* and every body line that begins with '-' is a deletion; also a body line whose
\* added or removed text begins with '++' or '--'.
C36_BodyLinesCounted ==
    Returned =>
        LET ls == InputLines
        IN  \A p \in 1..Len(ls) :
                (HeaderInForce(ls, p) # null /\ ls[p] # <<>> /\ ls[p][1] \in {"+", "-"}) =>
                    LET before == (BoundaryBefore(ls, p) + 1)..(p - 1)
                        N == Get(HeaderInForce(ls, p)).newStart
                    IN  \E k \in 1..Len(hunks) : \E i \in 1..Len(hunks[k].changes) :
                            LET c == hunks[k].changes[i]
                            IN  /\ c.content = ls[p]
                                /\ IF ls[p][1] = "+"
                                   THEN /\ c.type = "addition"
                                        /\ c.lineNumber = Some(N + CountNot(ls, before, {"-"}))
                                   ELSE c.type = "deletion"

\* the positions of ls whose line starts a run, in order
RunStarts(ls) ==
    LET Starts(p) == StartsRun(ls, p)
    IN  SelectSeq([i \in 1..Len(ls) |-> i], Starts)

\* the content lines of ls that lie after the same boundary as position p
RunAt(ls, p) ==
    LET InRun(q) == ContentLine(ls[q]) /\ BoundaryBefore(ls, q) = BoundaryBefore(ls, p)
    IN  SelectSeq([i \in 1..Len(ls) |-> i], InRun)

\* C37: hunk boundaries. The returned hunks are, in order, the runs of change lines
\* between two consecutive boundary lines ('diff --git' or '@@') or the ends of the
\* input: one hunk for each boundary that is followed by a change line, holding all
\* the change lines up to the next boundary and none from beyond it, under the
\* header and the filename in force there. No hunk is empty.
C37_HunkBoundaries ==
    Returned =>
        LET ls == InputLines
            starts == RunStarts(ls)
        IN  /\ Len(hunks) = Len(starts)
            /\ \A k \in 1..Len(hunks) :
                  LET run == RunAt(ls, starts[k])
                      m == MarkerBefore(ls, starts[k])
                  IN  /\ Len(hunks[k].changes) >= 1
                      /\ [i \in 1..Len(hunks[k].changes) |-> hunks[k].changes[i].content]
                             = [i \in 1..Len(run) |-> ls[run[i]]]
                      /\ hunks[k].hunkHeader = HeaderInForce(ls, starts[k])
                      /\ hunks[k].filename = IF m = 0 THEN <<>> ELSE PathOf(ls[m])

\* C37 witness: 'diff --git a/f b/f', '+x', a header followed by no change line,
\* 'diff --git a/d/g b/d/g', '+x': three boundaries, two hunks, the header lost
C37_Witness ==
    /\ Returned
    /\ InputLines = <<DiffF, AddLine, HeaderA, DiffG, AddLine>>
    /\ Len(hunks) = 2
    /\ hunks[1].filename = <<"f">>
    /\ hunks[2].filename = <<"d", "/", "g">>
    /\ hunks[2].hunkHeader = null
    /\ Len(hunks[1].changes) = 1 /\ Len(hunks[2].changes) = 1

-----------------------------------------------------------------------------
(* Further properties of filterComments (checked under SpecFilter) *)

\* s is t with some elements left out
RECURSIVE Subsequence(_, _)
Subsequence(s, t) ==
    IF s = <<>> THEN TRUE
    ELSE IF t = <<>> THEN FALSE
    ELSE IF Head(s) = Head(t) THEN Subsequence(Tail(s), Tail(t))
    ELSE Subsequence(s, Tail(t))

\* no filter is supplied
NoFilters(f) == ~Supplied(f.minLength) /\ ~Supplied(f.excludeFiles) /\ ~Supplied(f.includeFiles)

\* C39: filterComments returns an order-preserving subsequence of its input and is
\* idempotent. The result is the input with some comments left out, in the input's
\* order; filtering the result again with the same filters gives the result; with
\* no filters the result is the input.
C39_SubsequenceIdempotent ==
    (pc \in {"filtered", "refiltered"}) =>
        LET r == Get(filterCall.returned).items
        IN  /\ Subsequence(r, filterCall.comments)
            /\ NoFilters(filterCall.filters) => r = filterCall.comments
            /\ pc = "refiltered" => filterCall.again = Some(r)

\* C39 witness: of the comments in the files c and ab, in this order, an include
\* list ['a', 'b'] and a minLength of 1 keep the second, and filtering again keeps
\* it again
C39_Witness ==
    /\ pc = "refiltered"
    /\ [k \in 1..Len(filterCall.comments) |-> filterCall.comments[k].filename]
          = << <<"c">>, <<"a", "b">> >>
    /\ filterCall.filters.includeFiles = Array(<< <<"a">>, <<"b">> >>)
    /\ filterCall.filters.minLength = [type |-> "number", value |-> 1]
    /\ Len(Get(filterCall.returned).items) = 1
    /\ filterCall.again = Some(Get(filterCall.returned).items)

====
